---- MODULE Spec2Model ----
(***************************************************************************)
(* A model of the nand2tetris toolchain of this repository:                *)
(*   - the Hack assembler       (projects/06/hackasm/src/main.rs)          *)
(*   - the VM translator        (projects/hacktrans/src/{main,command}.rs) *)
(*   - the Jack compiler        (projects/jack_compiler/src)               *)
(* Text is modelled as sequences of one-character strings where the code   *)
(* inspects characters, and as strings where the code only compares or     *)
(* concatenates.                                                           *)
(***************************************************************************)
EXTENDS Integers, Sequences, FiniteSets, TLC

VARIABLES
    asmProgram,     \* the assembly source file: a sequence of source lines
    lineNo,         \* main: index of the next line `reader.lines()` yields
    symbol_table,   \* main: HashMap<&str, u16>
    instructions,   \* main: Vec<Box<dyn Instruction>>
    lineTypes,      \* main: the LineType parse_line returned for each line
    asmStatus       \* "running" | "done" | "panic"

asmVars == <<asmProgram, lineNo, symbol_table, instructions, lineTypes, asmStatus>>

VARIABLES
    input_path,     \* VM translator: [is_dir, stem] of the path given with -i
    vmFiles,        \* the .vm files read: a sequence of [name, lines]
    fileNo,         \* main: index of the reader being drained
    vmLineNo,       \* main: index of the next line of that reader
    counter,        \* command::Counter {eq, gt, lt}
    commands,       \* main: Vec<Box<dyn Command>>
    context,        \* command::Context
    cmdNo,          \* main: index of the next command to convert
    asmOut,         \* the text written to the .asm file, line by line
    cmdStart,       \* for each command, the number of lines written before it
    vmStatus,       \* "reading" | "writing" | "done" | "panic"
    rom,            \* Hack machine: the instruction memory
    ram,            \* Hack machine: the data memory (cells not listed hold 0)
    ram0,           \* the data memory when the machine was started
    regA, regD, pc, \* Hack machine: the registers
    cpuStatus       \* "off" | "running" | "halted"

vmVars == <<input_path, vmFiles, fileNo, vmLineNo, counter, commands, context, cmdNo,
            asmOut, cmdStart, vmStatus, rom, ram, ram0, regA, regD, pc, cpuStatus>>

VARIABLES
    jackSource,     \* Jack tokenizer: the lines `file_reader.lines()` yields
    jackLineNo,     \* generate_token_list: index of the next line
    file_context,   \* tokenizer::FileContext {in_comment}
    tokens,         \* generate_token_list: TokenList.list
    tokStatus       \* "reading" | "done" | "panic"

tokVars == <<jackSource, jackLineNo, file_context, tokens, tokStatus>>

VARIABLES
    jackClass,      \* Jack code generator: the parser::Class being compiled
    parseInfo,      \* the parser::ParseInfo of the class
    subNo,          \* Class::compile: index of the next subroutine
    vmText,         \* Class::compile: `output`, line by line
    subStart,       \* for each subroutine, the number of lines written before it
    compileState,   \* parser::CompileState {class_name, func_state}
    cmpStatus,      \* "idle" | "compiling" | "done" | "panic"
    jackTokens,     \* Jack parser: the TokenList parse_file is given
    parseStatus     \* "start", then what parse_file did: "Ok" | "Err" | "panic" | "hang"

cmpVars == <<jackClass, parseInfo, subNo, vmText, subStart, compileState, cmpStatus,
             jackTokens, parseStatus>>

jackVars == <<tokVars, cmpVars>>

vars == <<asmVars, vmVars, jackVars>>

\* the tokenizer is not run
TokIdle ==
    /\ jackSource = <<>>
    /\ jackLineNo = 1
    /\ file_context = [in_comment |-> FALSE]
    /\ tokens = <<>>
    /\ tokStatus = "done"

\* the code generator is not run
CmpIdle ==
    /\ jackClass = [name |-> "", subroutines |-> <<>>]
    /\ parseInfo = [return_type |-> <<>>, symbol_table_per_method |-> <<>>]
    /\ subNo = 1
    /\ vmText = <<>>
    /\ subStart = <<>>
    /\ compileState = [class_name |-> "", func_state |-> <<>>]
    /\ cmpStatus = "done"
    /\ jackTokens = <<>>
    /\ parseStatus = "Ok"

\* the Jack compiler is not run
JackIdle == TokIdle /\ CmpIdle

----------------------------------------------------------------------------
(* Generic helpers *)

Min(S) == CHOOSE m \in S : \A n \in S : m <= n

RECURSIVE Str(_)
\* the String made of a sequence of characters
Str(s) == IF s = <<>> THEN "" ELSE Head(s) \o Str(Tail(s))

RECURSIVE Pow2(_)
Pow2(n) == IF n = 0 THEN 1 ELSE 2 * Pow2(n - 1)

RECURSIVE SeqsUpTo(_, _)
\* all sequences over S of length 0..n
SeqsUpTo(S, n) ==
    IF n = 0 THEN {<<>>}
    ELSE LET shorter == SeqsUpTo(S, n - 1)
         IN  shorter \cup {Append(p, x) : p \in {q \in shorter : Len(q) = n - 1}, x \in S}

----------------------------------------------------------------------------
(* Hack assembler: projects/06/hackasm/src/main.rs *)

A_INSTRUCTION_SYMBOL == "@"
COMMENT_SYMBOL == <<"/", "/">>

\* const PREDEFINED_SYMBOL: [(&str, u16); 23], in source order
PREDEFINED_SYMBOL == <<
    <<"SP", 0>>, <<"LCL", 1>>, <<"ARG", 2>>, <<"THIS", 3>>, <<"THAT", 4>>,
    <<"R0", 0>>, <<"R1", 1>>, <<"R2", 2>>, <<"R3", 3>>, <<"R4", 4>>,
    <<"R5", 5>>, <<"R6", 6>>, <<"R7", 7>>, <<"R7", 8>>, <<"R9", 9>>,
    <<"R10", 10>>, <<"R11", 11>>, <<"R12", 12>>, <<"R13", 13>>,
    <<"R14", 14>>, <<"R15", 15>>, <<"SCREEN", 16384>>, <<"KBD", 24576>> >>

\* PREDEFINED_SYMBOL.iter().cloned().collect(): a later pair replaces an
\* earlier pair with the same key
CollectHashMap(pairs) ==
    [k \in {pairs[i][1] : i \in DOMAIN pairs} |->
        LET last == CHOOSE i \in DOMAIN pairs :
                        /\ pairs[i][1] = k
                        /\ \A j \in DOMAIN pairs : pairs[j][1] = k => j <= i
        IN  pairs[last][2]]

\* fn init_symbol_table(table, reader) {}: the body is empty
init_symbol_table(table) == table

Whitespace == {" ", "\t"}

RECURSIVE TrimStart(_)
TrimStart(s) ==
    IF s # <<>> /\ Head(s) \in Whitespace THEN TrimStart(Tail(s)) ELSE s

RECURSIVE TrimEnd(_)
TrimEnd(s) ==
    IF s # <<>> /\ s[Len(s)] \in Whitespace
    THEN TrimEnd(SubSeq(s, 1, Len(s) - 1)) ELSE s

\* str::trim
trim(s) == TrimEnd(TrimStart(s))

\* str::find(pat) for a two-character pattern: 0 stands for None
FindStr(line, pat) ==
    LET hits == {i \in 1..(Len(line) - 1) : line[i] = pat[1] /\ line[i + 1] = pat[2]}
    IN  IF hits = {} THEN 0 ELSE Min(hits)

\* str::find(char): 0 stands for None
FindChar(line, ch) ==
    LET hits == {i \in 1..Len(line) : line[i] = ch}
    IN  IF hits = {} THEN 0 ELSE Min(hits)

RECURSIVE Split(_, _)
\* str::split(char).collect()
Split(s, ch) ==
    LET p == FindChar(s, ch)
    IN  IF p = 0 THEN <<s>>
        ELSE <<SubSeq(s, 1, p - 1)>> \o Split(SubSeq(s, p + 1, Len(s)), ch)

remove_comment(line) ==
    LET pos == FindStr(line, COMMENT_SYMBOL)
    IN  IF pos = 0 THEN line ELSE SubSeq(line, 1, pos - 1)

Digits == {"0", "1", "2", "3", "4", "5", "6", "7", "8", "9"}
DigitVal(c) == CHOOSE d \in 0..9 : ToString(d) = c

RECURSIVE DecimalValue(_)
DecimalValue(s) ==
    IF s = <<>> THEN 0
    ELSE 10 * DecimalValue(SubSeq(s, 1, Len(s) - 1)) + DigitVal(s[Len(s)])

U16_MAX == 65535

\* str::parse::<u16>: an optional '+', then one or more digits, no overflow
parse_u16(s) ==
    LET body == IF s # <<>> /\ Head(s) = "+" THEN Tail(s) ELSE s
    IN  IF body = <<>> \/ \E i \in DOMAIN body : body[i] \notin Digits
        THEN [ok |-> FALSE, value |-> 0]
        ELSE IF DecimalValue(body) > U16_MAX
             THEN [ok |-> FALSE, value |-> 0]
             ELSE [ok |-> TRUE, value |-> DecimalValue(body)]

RECURSIVE Binary(_, _)
\* format!("{:0nb}", v)
Binary(v, n) ==
    IF n = 0 THEN ""
    ELSE Binary(v \div 2, n - 1) \o (IF v % 2 = 1 THEN "1" ELSE "0")

\* Option<String>: None is <<>>, Some(s) is <<s>>
None == <<>>
Some(s) == <<s>>

\* the comp arms of CInstruction::to_binary_text
CompArms ==
    ("0" :> "0101010") @@ ("1" :> "0111111") @@ ("-1" :> "0111010") @@
    ("D" :> "0001100") @@ ("A" :> "0110000") @@ ("M" :> "1110000") @@
    ("!D" :> "0001101") @@ ("!A" :> "0110001") @@ ("!M" :> "1110001") @@
    ("-D" :> "0001111") @@ ("-A" :> "0110011") @@ ("-M" :> "1110011") @@
    ("D+1" :> "0011111") @@ ("A+1" :> "0110111") @@ ("M+1" :> "1110111") @@
    ("D-1" :> "0001110") @@ ("A-1" :> "0110010") @@ ("M-1" :> "1110010") @@
    ("D+A" :> "0000010") @@ ("D+M" :> "1000010") @@
    ("D-A" :> "0010011") @@ ("D-M" :> "1010011") @@
    ("A-D" :> "0000111") @@ ("M-D" :> "1000111") @@
    ("D&A" :> "0000000") @@ ("D&M" :> "1000000") @@
    ("D|A" :> "0010101") @@ ("D|M" :> "1010101")

\* the dest arms of CInstruction::to_binary_text, keyed by Option<String>
DestArms ==
    (None :> "000") @@ (Some("M") :> "001") @@ (Some("D") :> "010") @@
    (Some("MD") :> "011") @@ (Some("A") :> "100") @@ (Some("AM") :> "101") @@
    (Some("AD") :> "110") @@ (Some("AMD") :> "111")

\* the jump arms of CInstruction::to_binary_text, keyed by Option<String>
JumpArms ==
    (None :> "000\n") @@ (Some("JGT") :> "001\n") @@ (Some("JEQ") :> "010\n") @@
    (Some("JGE") :> "011\n") @@ (Some("JLT") :> "100\n") @@ (Some("JNE") :> "101\n") @@
    (Some("JLE") :> "110\n") @@ (Some("JMP") :> "111\n")

Ok(text) == [ok |-> TRUE, text |-> text]
Err(msg) == [ok |-> FALSE, text |-> msg]

\* CInstruction::to_binary_text that drops the dest bits of an instruction
\* with a jump (a slip in the "has both dest and jmp" handling)
CInstruction_to_binary_text_nodest(inst) ==
    IF inst.comp \notin DOMAIN CompArms THEN Err("Unknown comp")
    ELSE IF inst.dest \notin DOMAIN DestArms THEN Err("Unknown dest")
    ELSE IF inst.jump \notin DOMAIN JumpArms THEN Err("Unknown jump")
    ELSE Ok("111" \o CompArms[inst.comp]
            \o (IF inst.jump = None THEN DestArms[inst.dest] ELSE DestArms[None])
            \o JumpArms[inst.jump])

\* impl Instruction for CInstruction
CInstruction_to_binary_text(inst) ==
    IF inst.comp \notin DOMAIN CompArms THEN Err("Unknown comp")
    ELSE IF inst.dest \notin DOMAIN DestArms THEN Err("Unknown dest")
    ELSE IF inst.jump \notin DOMAIN JumpArms THEN Err("Unknown jump")
    ELSE Ok("111" \o CompArms[inst.comp] \o DestArms[inst.dest] \o JumpArms[inst.jump])

\* impl Instruction for AInstruction
AInstruction_to_binary_text(inst) == Ok(Binary(inst.value, 16) \o "\n")

to_binary_text(inst) ==
    IF inst.type = "A" THEN AInstruction_to_binary_text(inst)
    ELSE CInstruction_to_binary_text(inst)

Panic == [panic |-> TRUE]
NoPanic(v) == [panic |-> FALSE, value |-> v]

MkC(comp, dest, jump) == [type |-> "C", comp |-> comp, dest |-> dest, jump |-> jump]

\* CInstruction::new; indexing a Vec beyond its length panics
CInstruction_new(line) ==
    LET dest_position == FindChar(line, "=")
        jmp_position  == FindChar(line, ";")
    IN  IF dest_position = 0
        THEN IF jmp_position = 0
             THEN NoPanic(MkC(Str(line), None, None))
             ELSE LET comp_jmp == Split(line, ";")
                  IN  NoPanic(MkC(Str(comp_jmp[1]), None, Some(Str(comp_jmp[2]))))
        ELSE IF jmp_position = 0
             THEN LET dest_comp == Split(line, "=")
                  IN  NoPanic(MkC(Str(dest_comp[2]), Some(Str(dest_comp[1])), None))
             ELSE LET dest_comp_jmp == Split(line, "=")
                      comp_jmp == Split(dest_comp_jmp[2], ";")
                  IN  IF Len(comp_jmp) < 2 THEN Panic
                      ELSE NoPanic(MkC(Str(comp_jmp[1]), Some(Str(dest_comp_jmp[1])),
                                       Some(Str(comp_jmp[2]))))

\* AInstruction::new; symbol_table.get(..).unwrap() panics on an absent key
AInstruction_new(line, table) ==
    LET splitten == Split(line, A_INSTRUCTION_SYMBOL)
        address_or_symbol == splitten[2]
        maybe_address == parse_u16(address_or_symbol)
    IN  IF maybe_address.ok
        THEN NoPanic([type |-> "A", value |-> maybe_address.value])
        ELSE IF Str(address_or_symbol) \in DOMAIN table
             THEN NoPanic([type |-> "A", value |-> table[Str(address_or_symbol)]])
             ELSE Panic

\* parse_line: the LineType it returns and the instruction it pushes, if any
parse_line(line, table) ==
    LET trimmed == trim(line)
        code == remove_comment(trimmed)
    IN  IF code = <<>> THEN [panic |-> FALSE, type |-> "Blank", push |-> <<>>]
        ELSE IF Head(code) = A_INSTRUCTION_SYMBOL
        THEN LET ainst == AInstruction_new(code, table)
             IN  IF ainst.panic THEN [panic |-> TRUE, type |-> "AInstruction", push |-> <<>>]
                 ELSE [panic |-> FALSE, type |-> "AInstruction", push |-> <<ainst.value>>]
        ELSE IF Head(code) = "(" THEN [panic |-> FALSE, type |-> "Label", push |-> <<>>]
        ELSE LET cinst == CInstruction_new(code)
             IN  IF cinst.panic THEN [panic |-> TRUE, type |-> "CInstruction", push |-> <<>>]
                 ELSE [panic |-> FALSE, type |-> "CInstruction", push |-> <<cinst.value>>]

----------------------------------------------------------------------------
(* The assembly source file.  A source line is kept with its structure so   *)
(* that the properties can speak of "the label", "the operand"; the         *)
(* assembler only ever sees LineText(line), the characters.                 *)

MkLine(kind, operand, dest, comp, jump) ==
    [kind |-> kind, operand |-> operand, dest |-> dest, comp |-> comp,
     jump |-> jump, pre |-> <<>>, post |-> <<>>]

ALine(operand) == MkLine("A", operand, <<>>, <<>>, <<>>)
CLine(dest, comp, jump) == MkLine("C", <<>>, dest, comp, jump)
LabelLine(name) == MkLine("Label", name, <<>>, <<>>, <<>>)
BlankLine == MkLine("Blank", <<>>, <<>>, <<>>, <<>>)
Decorated(line, pre, post) == [line EXCEPT !.pre = pre, !.post = post]

LineBody(l) ==
    CASE l.kind = "A" -> <<"@">> \o l.operand
      [] l.kind = "Label" -> <<"(">> \o l.operand \o <<")">>
      [] l.kind = "C" ->
            (IF l.dest = <<>> THEN <<>> ELSE l.dest[1] \o <<"=">>)
            \o l.comp
            \o (IF l.jump = <<>> THEN <<>> ELSE <<";">> \o l.jump[1])
      [] OTHER -> <<>>

LineText(l) == l.pre \o LineBody(l) \o l.post

\* section 6.3 of the specification: the comp, dest and jump tables
SpecComp ==
    (<<"0">> :> "0101010") @@ (<<"1">> :> "0111111") @@ (<<"-", "1">> :> "0111010") @@
    (<<"D">> :> "0001100") @@ (<<"A">> :> "0110000") @@ (<<"M">> :> "1110000") @@
    (<<"!", "D">> :> "0001101") @@ (<<"!", "A">> :> "0110001") @@
    (<<"!", "M">> :> "1110001") @@ (<<"-", "D">> :> "0001111") @@
    (<<"-", "A">> :> "0110011") @@ (<<"-", "M">> :> "1110011") @@
    (<<"D", "+", "1">> :> "0011111") @@ (<<"A", "+", "1">> :> "0110111") @@
    (<<"M", "+", "1">> :> "1110111") @@ (<<"D", "-", "1">> :> "0001110") @@
    (<<"A", "-", "1">> :> "0110010") @@ (<<"M", "-", "1">> :> "1110010") @@
    (<<"D", "+", "A">> :> "0000010") @@ (<<"D", "+", "M">> :> "1000010") @@
    (<<"D", "-", "A">> :> "0010011") @@ (<<"D", "-", "M">> :> "1010011") @@
    (<<"A", "-", "D">> :> "0000111") @@ (<<"M", "-", "D">> :> "1000111") @@
    (<<"D", "&", "A">> :> "0000000") @@ (<<"D", "&", "M">> :> "1000000") @@
    (<<"D", "|", "A">> :> "0010101") @@ (<<"D", "|", "M">> :> "1010101")

SpecDest ==
    (<<>> :> "000") @@ (<< <<"M">> >> :> "001") @@ (<< <<"D">> >> :> "010") @@
    (<< <<"M", "D">> >> :> "011") @@ (<< <<"A">> >> :> "100") @@
    (<< <<"A", "M">> >> :> "101") @@ (<< <<"A", "D">> >> :> "110") @@
    (<< <<"A", "M", "D">> >> :> "111")

SpecJump ==
    (<<>> :> "000") @@ (<< <<"J", "G", "T">> >> :> "001") @@
    (<< <<"J", "E", "Q">> >> :> "010") @@ (<< <<"J", "G", "E">> >> :> "011") @@
    (<< <<"J", "L", "T">> >> :> "100") @@ (<< <<"J", "N", "E">> >> :> "101") @@
    (<< <<"J", "L", "E">> >> :> "110") @@ (<< <<"J", "M", "P">> >> :> "111")

\* section 6.3: the predefined symbols
SpecPredefined ==
    ("SP" :> 0) @@ ("LCL" :> 1) @@ ("ARG" :> 2) @@ ("THIS" :> 3) @@ ("THAT" :> 4) @@
    ("SCREEN" :> 16384) @@ ("KBD" :> 24576) @@
    [r \in {"R" \o ToString(n) : n \in 0..15} |->
        CHOOSE n \in 0..15 : r = "R" \o ToString(n)]

\* the longest program built from AsmLineSet
MaxAsmLines == 3

DeqA == CLine(<< <<"D">> >>, <<"A">>, <<>>)
TrailingComment == <<" ", "/", "/", "c">>

\* the lines the short programs are built from
AsmLineSet ==
    { ALine(<<"2">>), ALine(<<"L">>), ALine(<<"i">>), ALine(<<"j">>),
      LabelLine(<<"L">>), DeqA, CLine(<<>>, <<"0">>, << <<"J", "M", "P">> >>),
      BlankLine, Decorated(BlankLine, <<" ">>, <<"/", "/", "c">>),
      Decorated(ALine(<<"2">>), <<" ">>, <<" ">>),
      Decorated(ALine(<<"2">>), <<>>, TrailingComment),
      Decorated(DeqA, <<>>, TrailingComment) }

\* every C-instruction of the section 6.3 tables
AllCLines ==
    {CLine(d, c, j) : d \in DOMAIN SpecDest, c \in DOMAIN SpecComp, j \in DOMAIN SpecJump}

RegisterChars == [n \in 0..15 |->
    IF n < 10 THEN <<"R", ToString(n)>> ELSE <<"R", "1", ToString(n - 10)>>]

\* @R0 .. @R15, the other predefined symbols, and addresses at the edges
SingleALines ==
    {ALine(RegisterChars[n]) : n \in 0..15}
    \cup {ALine(<<"S", "P">>), ALine(<<"L", "C", "L">>), ALine(<<"A", "R", "G">>),
          ALine(<<"T", "H", "I", "S">>), ALine(<<"T", "H", "A", "T">>),
          ALine(<<"S", "C", "R", "E", "E", "N">>), ALine(<<"K", "B", "D">>)}
    \cup {ALine(<<"0">>), ALine(<<"3", "2", "7", "6", "7">>),
          ALine(<<"3", "2", "7", "6", "8">>), ALine(<<"6", "5", "5", "3", "5">>)}

\* end-to-end scenario (1) of the specification
SmokeProgram ==
    << ALine(<<"2">>), DeqA, ALine(<<"3">>),
       CLine(<< <<"D">> >>, <<"D", "+", "A">>, <<>>),
       ALine(<<"0">>), CLine(<< <<"M">> >>, <<"D">>, <<>>) >>

AsmPrograms ==
    SeqsUpTo(AsmLineSet, MaxAsmLines)
    \cup {<<l>> : l \in AllCLines \cup SingleALines}
    \cup {SmokeProgram}

----------------------------------------------------------------------------
(* main of the assembler *)

\* the translator and the machine are not run
VmIdle ==
    /\ input_path = [is_dir |-> FALSE, stem |-> ""]
    /\ vmFiles = <<>>
    /\ fileNo = 1
    /\ vmLineNo = 1
    /\ counter = [eq |-> 0, gt |-> 0, lt |-> 0]
    /\ commands = <<>>
    /\ context = [prefix |-> "", function_name |-> "", function_count |-> 0]
    /\ cmdNo = 1
    /\ asmOut = <<>>
    /\ cmdStart = <<>>
    /\ vmStatus = "done"
    /\ rom = <<>>
    /\ ram = <<>>
    /\ ram0 = <<>>
    /\ regA = 0
    /\ regD = 0
    /\ pc = 0
    /\ cpuStatus = "halted"

AsmInit ==
    /\ asmProgram \in AsmPrograms
    /\ lineNo = 1
    /\ symbol_table = init_symbol_table(CollectHashMap(PREDEFINED_SYMBOL))
    /\ instructions = <<>>
    /\ lineTypes = <<>>
    /\ asmStatus = "running"

\* one turn of `for line in reader.lines()`; parse_line(..).unwrap()
ParseLine ==
    /\ asmStatus = "running"
    /\ lineNo <= Len(asmProgram)
    /\ LET r == parse_line(LineText(asmProgram[lineNo]), symbol_table)
       IN  IF r.panic
           THEN /\ asmStatus' = "panic"
                /\ UNCHANGED <<lineNo, instructions, lineTypes>>
           ELSE /\ instructions' = instructions \o r.push
                /\ lineTypes' = Append(lineTypes, r.type)
                /\ lineNo' = lineNo + 1
                /\ UNCHANGED asmStatus
    /\ UNCHANGED <<asmProgram, symbol_table>>
    /\ UNCHANGED <<vmVars, jackVars>>

\* the loop is over: Ok(())
AsmFinish ==
    /\ asmStatus = "running"
    /\ lineNo > Len(asmProgram)
    /\ asmStatus' = "done"
    /\ UNCHANGED <<asmProgram, lineNo, symbol_table, instructions, lineTypes>>
    /\ UNCHANGED <<vmVars, jackVars>>

AsmNext == ParseLine \/ AsmFinish

InitAsm == AsmInit /\ VmIdle /\ JackIdle

SpecAsm == InitAsm /\ [][AsmNext]_vars

----------------------------------------------------------------------------
(* What the assembler has produced for a source line.  main keeps the       *)
(* instructions in `instructions`; the loop that writes                     *)
(* to_binary_text(inst) to the .hack file is commented out (lines 259-265), *)
(* so the words of the output are read off `instructions` here.             *)

InstructionTypes == {"AInstruction", "CInstruction"}

\* line i has been handed to parse_line
Attempted(i) == i <= Len(lineTypes) \/ (asmStatus = "panic" /\ i = lineNo)

\* the index in `instructions` of the instruction pushed for line i
CodeIdx(i) == Cardinality({k \in 1..i : lineTypes[k] \in InstructionTypes})

HasWord(i) ==
    /\ i <= Len(lineTypes)
    /\ lineTypes[i] \in InstructionTypes
    /\ to_binary_text(instructions[CodeIdx(i)]).ok

Word(i) == to_binary_text(instructions[CodeIdx(i)]).text

NumWords == Cardinality({k \in DOMAIN instructions : to_binary_text(instructions[k]).ok})

RECURSIVE OutputFrom(_)
OutputFrom(k) ==
    IF k > Len(instructions) THEN <<>>
    ELSE <<to_binary_text(instructions[k]).text>> \o OutputFrom(k + 1)
OutputText == OutputFrom(1)

AsmTerminated == asmStatus \in {"done", "panic"}

(* The reading of the source file the specification gives (sections 4.6, 6.3) *)

IsInstr(l) == l.kind \in {"A", "C"}
IsNumeric(operand) == operand # <<>> /\ \A k \in DOMAIN operand : operand[k] \in Digits
HasComment(l) == FindStr(l.post, COMMENT_SYMBOL) # 0

LabelsOf(prog) == {prog[k].operand : k \in {n \in DOMAIN prog : prog[n].kind = "Label"}}

\* ROM_index of a label: the number of A- and C-instructions that precede it
LabelAddress(prog, name) ==
    LET at == Min({k \in DOMAIN prog : prog[k].kind = "Label" /\ prog[k].operand = name})
    IN  Cardinality({k \in 1..at : IsInstr(prog[k])})

IsSymbolRef(l) == l.kind = "A" /\ ~IsNumeric(l.operand)
IsLabelRef(prog, l) == IsSymbolRef(l) /\ l.operand \in LabelsOf(prog)
IsVariableRef(prog, l) ==
    /\ IsSymbolRef(l)
    /\ l.operand \notin LabelsOf(prog)
    /\ Str(l.operand) \notin DOMAIN SpecPredefined

\* the RAM address of the variable first used on line i: 16 + the number of
\* distinct variables that appear before it
VariableAddress(prog, name) ==
    LET first == Min({k \in DOMAIN prog : prog[k].kind = "A" /\ prog[k].operand = name})
    IN  16 + Cardinality({prog[k].operand : k \in {n \in 1..(first - 1) :
                                                    IsVariableRef(prog, prog[n])}})

SmokeExpected ==
    << "0000000000000010\n", "1110110000010000\n", "0000000000000011\n",
       "1110000010010000\n", "0000000000000000\n", "1110001100001000\n" >>

----------------------------------------------------------------------------
(* Properties of the assembler *)

C2_LabelBinding ==
    \A i \in DOMAIN asmProgram :
        LET l == asmProgram[i]
        IN  /\ (i <= Len(lineTypes) /\ asmStatus = "done" /\ l.kind = "Label") =>
                  /\ Str(l.operand) \in DOMAIN symbol_table
                  /\ symbol_table[Str(l.operand)] = LabelAddress(asmProgram, l.operand)
            /\ (Attempted(i) /\ IsLabelRef(asmProgram, l) /\ ~HasComment(l)) =>
                  /\ HasWord(i)
                  /\ Word(i) = Binary(LabelAddress(asmProgram, l.operand), 16) \o "\n"

\* C3: @symbol with a symbol that is neither predefined nor a label emits
\* the next free RAM address, 16 for the first new variable and one more for
\* each further one, and the same address at every later use.
C3_VariableAllocation ==
    \A i \in DOMAIN asmProgram :
        LET l == asmProgram[i]
        IN  (Attempted(i) /\ IsVariableRef(asmProgram, l) /\ ~HasComment(l)) =>
               /\ HasWord(i)
               /\ Word(i) = Binary(VariableAddress(asmProgram, l.operand), 16) \o "\n"

\* C4: the number of words emitted equals the number of A- and C-instruction
\* lines, whatever blank lines, comments, labels, surrounding whitespace and
\* trailing comments the file has (stated here for the programs that use no
\* symbol at all, so that it does not rest on C2 or C3).
C4_WordCount ==
    (AsmTerminated /\ \A i \in DOMAIN asmProgram : ~IsSymbolRef(asmProgram[i])) =>
        NumWords = Cardinality({i \in DOMAIN asmProgram : IsInstr(asmProgram[i])})

\* C5: the initial symbol table holds SP, LCL, ARG, THIS, THAT, R0..R15,
\* SCREEN and KBD with the values of section 6.3, and @Rn emits n.
C5_PredefinedSymbols ==
    /\ \A name \in DOMAIN SpecPredefined :
          name \in DOMAIN symbol_table /\ symbol_table[name] = SpecPredefined[name]
    /\ \A i \in DOMAIN asmProgram :
          LET l == asmProgram[i]
          IN  (/\ Attempted(i)
               /\ IsSymbolRef(l)
               /\ ~HasComment(l)
               /\ Str(l.operand) \in DOMAIN SpecPredefined) =>
                 /\ HasWord(i)
                 /\ Word(i) = Binary(SpecPredefined[Str(l.operand)], 16) \o "\n"

\* C6: the word of an A-instruction is 0 followed by the 15 address bits,
\* and a numeric address above 32767 is rejected, not encoded.
C6_AddressRange ==
    \A i \in DOMAIN asmProgram :
        LET l == asmProgram[i]
        IN  (Attempted(i) /\ l.kind = "A" /\ IsNumeric(l.operand) /\ ~HasComment(l)) =>
               IF DecimalValue(l.operand) > 32767
               THEN ~HasWord(i)
               ELSE /\ HasWord(i)
                    /\ Word(i) = "0" \o Binary(DecimalValue(l.operand), 15) \o "\n"

----------------------------------------------------------------------------
(* VM translator: projects/hacktrans/src/command.rs                         *)
(* A line of assembly text is kept as what it says:                         *)
(*   At(s)      "@s" with a symbol s          AtNum(n)  "@n" with a numeral *)
(*   C(d, c, j) "d=c;j" (d, j may be "")      Lbl(s)    "(s)"               *)

At(sym) == [t |-> "A", num |-> FALSE, val |-> 0, sym |-> sym]
AtNum(n) == [t |-> "A", num |-> TRUE, val |-> n, sym |-> ToString(n)]
C(dest, comp, jump) == [t |-> "C", dest |-> dest, comp |-> comp, jump |-> jump]
Lbl(sym) == [t |-> "L", sym |-> sym]

\* format!("{}.{}", a, b)
Dot(a, b) == a \o "." \o b

NULL_ID == 0

\* const ADD_ASM, SUB_ASM, AND_ASM, OR_ASM: they differ in the sixth line only
BinaryAsm(comp) ==
    << At("SP"), C("A", "M", ""), C("A", "A-1", ""), C("D", "M", ""),
       C("A", "A-1", ""), C("M", comp, ""), C("D", "A+1", ""), At("SP"), C("M", "D", "") >>

ADD_ASM == BinaryAsm("D+M")
SUB_ASM == BinaryAsm("M-D")
AND_ASM == BinaryAsm("D&M")
OR_ASM  == BinaryAsm("D|M")

\* const NEG_ASM, NOT_ASM: they differ in the fifth line only
UnaryAsm(comp) ==
    << At("SP"), C("A", "M", ""), C("A", "A-1", ""), C("D", "M", ""),
       C("M", comp, ""), C("D", "A+1", ""), At("SP"), C("M", "D", "") >>

NEG_ASM == UnaryAsm("-M")
NOT_ASM == UnaryAsm("!M")

\* the tail shared by the Eq, Lt and Gt templates: write `comp` over x, SP = &x + 1
CompareTail(comp) ==
    << At("SP"), C("A", "M-1", ""), C("A", "A-1", ""), C("M", comp, ""),
       C("D", "A+1", ""), At("SP"), C("M", "D", "") >>

\* the head shared by the Eq, Lt and Gt templates: D = x - y
CompareHead ==
    << At("SP"), C("A", "M", ""), C("A", "A-1", ""), C("D", "M", ""),
       C("A", "A-1", ""), C("D", "M-D", "") >>

\* the Eq template with a jump label that leaves the id out
EqAsm_shared(id) ==
    CompareHead
    \o << At("IsEq"), C("", "D", "JEQ"), C("D", "-1", ""), Lbl("IsEq") >>
    \o CompareTail("!D")

EqAsm(id) ==
    CompareHead
    \o << At(Dot("IsEq", ToString(id))), C("", "D", "JEQ"), C("D", "-1", ""),
          Lbl(Dot("IsEq", ToString(id))) >>
    \o CompareTail("!D")

LtAsm(id) ==
    CompareHead
    \o << At(Dot("IsGe", ToString(id))), C("", "D", "JGE"), C("D", "-1", ""),
          At(Dot("WriteLtOutput", ToString(id))), C("", "0", "JMP"),
          Lbl(Dot("IsGe", ToString(id))), C("D", "0", ""),
          Lbl(Dot("WriteLtOutput", ToString(id))) >>
    \o CompareTail("D")

GtAsm(id) ==
    CompareHead
    \o << At(Dot("IsGt", ToString(id))), C("", "D", "JGT"), C("D", "0", ""),
          At(Dot("WriteGtOutput", ToString(id))), C("", "0", "JMP"),
          Lbl(Dot("IsGt", ToString(id))), C("D", "-1", ""),
          Lbl(Dot("WriteGtOutput", ToString(id))) >>
    \o CompareTail("D")

\* impl Command for Arithmetic
Arithmetic_to_asm_text(cmd) ==
    CASE cmd.arithmetic = "Add" -> Ok(ADD_ASM)
      [] cmd.arithmetic = "Sub" -> Ok(SUB_ASM)
      [] cmd.arithmetic = "And" -> Ok(AND_ASM)
      [] cmd.arithmetic = "Or"  -> Ok(OR_ASM)
      [] cmd.arithmetic = "Neg" -> Ok(NEG_ASM)
      [] cmd.arithmetic = "Not" -> Ok(NOT_ASM)
      [] cmd.arithmetic = "Eq"  -> Ok(EqAsm(cmd.id))
      [] cmd.arithmetic = "Lt"  -> Ok(LtAsm(cmd.id))
      [] cmd.arithmetic = "Gt"  -> Ok(GtAsm(cmd.id))

\* the tail of every Push template: RAM[SP] = D, SP = SP + 1
PushD == << At("SP"), C("A", "M", ""), C("M", "D", ""), At("SP"), C("M", "M+1", "") >>

\* Push Local / Argument / This / That: D = RAM[RAM[base] + index]
PushIndirect(index, base) ==
    << AtNum(index), C("D", "A", ""), At(base), C("A", "D+M", ""), C("D", "M", "") >> \o PushD

\* Push Temp / Pointer: D = RAM[base + index]
PushDirect(index, base) ==
    << AtNum(index), C("D", "A", ""), At(base), C("A", "D+A", ""), C("D", "M", "") >> \o PushD

\* the tail of the Pop templates that go through the scratch cell
PopThrough(tmp_symbol) ==
    << At(tmp_symbol), C("M", "D", ""), At("SP"), C("AM", "M-1", ""), C("D", "M", ""),
       At(tmp_symbol), C("A", "M", ""), C("M", "D", "") >>

\* PopIndirect taking the base symbol's address for the segment's base (the
\* Temp / Pointer template used for a pointer-based segment)
PopIndirect_direct(index, base, tmp_symbol) ==
    << AtNum(index), C("D", "A", ""), At(base), C("D", "D+A", "") >> \o PopThrough(tmp_symbol)

\* Pop Local / Argument / This / That
PopIndirect(index, base, tmp_symbol) ==
    << AtNum(index), C("D", "A", ""), At(base), C("D", "D+M", "") >> \o PopThrough(tmp_symbol)

\* Pop Temp / Pointer
PopDirect(index, base, tmp_symbol) ==
    << AtNum(index), C("D", "A", ""), At(base), C("D", "D+A", "") >> \o PopThrough(tmp_symbol)

\* the base symbol of the four pointer-based segments
SegmentBase ==
    ("Local" :> "LCL") @@ ("Argument" :> "ARG") @@ ("This" :> "THIS") @@ ("That" :> "THAT")

\* impl Command for MemoryAccess
MemoryAccess_to_asm_text(cmd, ctx) ==
    LET tmp_symbol == Dot(ctx.prefix, "tmp")
        static_symbol == Dot(ctx.prefix, ToString(cmd.index))
    IN  CASE cmd.command = "Push" ->
               (CASE cmd.segment = "Constant" ->
                        Ok(<< AtNum(cmd.index), C("D", "A", "") >> \o PushD)
                  [] cmd.segment \in DOMAIN SegmentBase ->
                        Ok(PushIndirect(cmd.index, SegmentBase[cmd.segment]))
                  [] cmd.segment = "Temp" -> Ok(PushDirect(cmd.index, "R5"))
                  [] cmd.segment = "Pointer" -> Ok(PushDirect(cmd.index, "R3"))
                  [] cmd.segment = "Static" ->
                        Ok(<< At(static_symbol), C("D", "M", "") >> \o PushD))
          [] cmd.command = "Pop" ->
               (CASE cmd.segment \in DOMAIN SegmentBase ->
                        Ok(PopIndirect(cmd.index, SegmentBase[cmd.segment], tmp_symbol))
                  [] cmd.segment = "Temp" -> Ok(PopDirect(cmd.index, "R5", tmp_symbol))
                  [] cmd.segment = "Pointer" -> Ok(PopDirect(cmd.index, "R3", tmp_symbol))
                  [] cmd.segment = "Static" ->
                        Ok(<< At("SP"), C("AM", "M-1", ""), C("D", "M", ""),
                              At(static_symbol), C("M", "D", "") >>)
                  [] OTHER -> Err("Unsupported memory segment for Pop"))
          [] OTHER -> Err("Unsupported MemoryAccessCommand")

\* impl Command for ProgramFlow
ProgramFlow_to_asm_text(cmd, ctx) ==
    LET target_label == Dot(ctx.prefix, cmd.symbol)
    IN  CASE cmd.command = "Label" -> Ok(<< Lbl(target_label) >>)
          [] cmd.command = "If" ->
                Ok(<< At("SP"), C("AM", "M-1", ""), C("D", "M", ""),
                      At(target_label), C("", "D", "JNE") >>)
          [] cmd.command = "GoTo" -> Ok(<< At(target_label), C("", "0", "JMP") >>)
          [] OTHER -> Err("Unsupported CommandType")

RECURSIVE Repeat(_, _)
Repeat(text, n) == IF n = 0 THEN <<>> ELSE text \o Repeat(text, n - 1)

\* the Return template (its two comment lines are left out)
ReturnAsm(return_address) ==
    << At("LCL"), C("D", "M", ""), AtNum(5), C("A", "D-A", ""), C("D", "M", ""),
       At(return_address), C("M", "D", ""),
       At("SP"), C("A", "M-1", ""), C("D", "M", ""), At("ARG"), C("A", "M", ""), C("M", "D", ""),
       C("D", "A+1", ""), At("SP"), C("M", "D", ""),
       At("LCL"), C("A", "M-1", ""), C("D", "M", ""), At("THAT"), C("M", "D", ""),
       At("LCL"), C("A", "M-1", ""), C("A", "A-1", ""), C("D", "M", ""), At("THIS"), C("M", "D", ""),
       At("LCL"), C("D", "M", ""), AtNum(3), C("A", "D-A", ""), C("D", "M", ""),
       At("ARG"), C("M", "D", ""),
       At("LCL"), C("D", "M", ""), AtNum(4), C("A", "D-A", ""), C("D", "M", ""),
       At("LCL"), C("M", "D", ""),
       At(return_address), C("A", "M", "JMP") >>

\* impl Command for Function
Function_to_asm_text(cmd, ctx) ==
    CASE cmd.command = "Function" ->
            Ok(<< Lbl(cmd.name[1]), At("SP"), C("A", "M", "") >>
               \o Repeat(<< C("M", "0", ""), C("A", "A+1", "") >>, cmd.argument_num[1])
               \o << C("D", "A", ""), At("SP"), C("M", "D", "") >>)
      [] cmd.command = "Return" -> Ok(ReturnAsm(Dot(ctx.prefix, "ret")))
      [] cmd.command = "Call" -> Ok(<<>>)
      [] OTHER -> Err("Unsupported Function command")

\* cmd.to_asm_text(&context), dispatched on the type behind the Box<dyn Command>
to_asm_text(cmd, ctx) ==
    CASE cmd.struct = "Arithmetic" -> Arithmetic_to_asm_text(cmd)
      [] cmd.struct = "MemoryAccess" -> MemoryAccess_to_asm_text(cmd, ctx)
      [] cmd.struct = "ProgramFlow" -> ProgramFlow_to_asm_text(cmd, ctx)
      [] cmd.struct = "Function" -> Function_to_asm_text(cmd, ctx)

----------------------------------------------------------------------------
(* VM translator: projects/hacktrans/src/main.rs                            *)
(* A line of a .vm file is kept as the clauses split_whitespace yields once *)
(* the comment is removed: [op, arg1, arg2], op = "" for a blank or comment *)
(* line, the index clause already parsed.                                   *)

VmLine(op, arg1, arg2) == [op |-> op, arg1 |-> arg1, arg2 |-> arg2]

SegmentNames ==
    ("argument" :> "Argument") @@ ("local" :> "Local") @@ ("static" :> "Static") @@
    ("constant" :> "Constant") @@ ("this" :> "This") @@ ("that" :> "That") @@
    ("temp" :> "Temp") @@ ("pointer" :> "Pointer")

\* MemoryAccess::new: an unknown segment panics
MemoryAccess_new(command, segment, index) ==
    IF segment \notin DOMAIN SegmentNames THEN Panic
    ELSE NoPanic([struct |-> "MemoryAccess", command |-> command,
                  segment |-> SegmentNames[segment], index |-> index])

Arithmetic_new(arithmetic, id) ==
    [struct |-> "Arithmetic", command |-> "Arithmetic", arithmetic |-> arithmetic, id |-> id]

ProgramFlow_new(command, symbol) ==
    [struct |-> "ProgramFlow", command |-> command, symbol |-> symbol]

Function_new(command, name, arg_num) ==
    [struct |-> "Function", command |-> command, name |-> name, argument_num |-> arg_num]

\* parse_line of the translator: the command it returns (<<>> for None) and
\* the counter it leaves
Parsed(cmd, cnt) == [panic |-> FALSE, cmd |-> <<cmd>>, counter |-> cnt]
ParsedNone(cnt) == [panic |-> FALSE, cmd |-> <<>>, counter |-> cnt]
ParsePanic(cnt) == [panic |-> TRUE, cmd |-> <<>>, counter |-> cnt]

vm_parse_line(line, cnt) ==
    CASE line.op = "" -> ParsedNone(cnt)
      [] line.op \in {"push", "pop"} ->
            LET m == MemoryAccess_new(IF line.op = "push" THEN "Push" ELSE "Pop",
                                      line.arg1, line.arg2)
            IN  IF m.panic THEN ParsePanic(cnt) ELSE Parsed(m.value, cnt)
      [] line.op = "add" -> Parsed(Arithmetic_new("Add", NULL_ID), cnt)
      [] line.op = "sub" -> Parsed(Arithmetic_new("Sub", NULL_ID), cnt)
      [] line.op = "neg" -> Parsed(Arithmetic_new("Neg", NULL_ID), cnt)
      [] line.op = "eq" ->
            LET c == [cnt EXCEPT !.eq = @ + 1] IN Parsed(Arithmetic_new("Eq", c.eq), c)
      [] line.op = "gt" ->
            LET c == [cnt EXCEPT !.gt = @ + 1] IN Parsed(Arithmetic_new("Gt", c.gt), c)
      [] line.op = "lt" ->
            LET c == [cnt EXCEPT !.lt = @ + 1] IN Parsed(Arithmetic_new("Lt", c.lt), c)
      [] line.op = "and" -> Parsed(Arithmetic_new("And", NULL_ID), cnt)
      [] line.op = "or" -> Parsed(Arithmetic_new("Or", NULL_ID), cnt)
      [] line.op = "not" -> Parsed(Arithmetic_new("Not", NULL_ID), cnt)
      [] line.op = "label" -> Parsed(ProgramFlow_new("Label", line.arg1), cnt)
      [] line.op = "goto" -> Parsed(ProgramFlow_new("GoTo", line.arg1), cnt)
      [] line.op = "if-goto" -> Parsed(ProgramFlow_new("If", line.arg1), cnt)
      [] line.op = "function" ->
            Parsed(Function_new("Function", Some(line.arg1), Some(line.arg2)), cnt)
      [] line.op = "return" -> Parsed(Function_new("Return", None, None), cnt)
      [] line.op = "call" ->
            Parsed(Function_new("Call", Some(line.arg1), Some(line.arg2)), cnt)
      [] OTHER -> ParsedNone(cnt)

(* command::Context::new, Context::update and command::generate_call_asm are *)
(* called by main but are not part of command.rs as given; they follow      *)
(* section 4.5 of the specification.                                        *)

Context_new(prefix) == [prefix |-> prefix, function_name |-> "", function_count |-> 0]

\* "No other state crosses command boundaries except the static prefix and
\* the return-address counter": the prefix stays, a function command names
\* the caller and restarts the count of its calls, a call counts
Context_update(ctx, cmd) ==
    CASE cmd.command = "Function" ->
            [ctx EXCEPT !.function_name = cmd.name[1], !.function_count = 0]
      [] cmd.command = "Call" -> [ctx EXCEPT !.function_count = @ + 1]
      [] OTHER -> ctx

\* push the word of `symbol` taken with `comp` (A for an address, M for a cell)
PushWord(symbol, comp) == << At(symbol), C("D", comp, "") >> \o PushD

\* call f n: push the return address, LCL, ARG, THIS, THAT; ARG = SP - n - 5;
\* LCL = SP; goto f; (return address)
generate_call_asm(return_label, n, f) ==
    PushWord(return_label, "A") \o PushWord("LCL", "M") \o PushWord("ARG", "M")
    \o PushWord("THIS", "M") \o PushWord("THAT", "M")
    \o << At("SP"), C("D", "M", ""), AtNum(n + 5), C("D", "D-A", ""), At("ARG"), C("M", "D", ""),
          At("SP"), C("D", "M", ""), At("LCL"), C("M", "D", ""),
          At(f), C("", "0", "JMP"), Lbl(return_label) >>

\* main: the prefix is the file stem of the input path, file or directory
PrefixOf(path) == path.stem

\* main: the bootstrap code written before the commands
Bootstrap(prefix) ==
    << AtNum(256), C("D", "A", ""), At("SP"), C("M", "D", "") >>
    \o generate_call_asm(prefix \o "$ret.1", 0, "Sys.init")

----------------------------------------------------------------------------
(* The Hack platform the emitted assembly runs on: the two-pass symbol      *)
(* resolution of section 4.6 and the 16-bit machine of the glossary.        *)

WordSize == 16
Modulus == Pow2(WordSize)
MinusOne == Modulus - 1
SignBit == Pow2(WordSize - 1)

Wrap(v) == v % Modulus
\* the two's-complement value of a word
Signed(w) == IF w >= SignBit THEN w - Modulus ELSE w
\* the word of a two's-complement value
Word16(v) == v % Modulus

RECURSIVE BitAnd(_, _, _)
BitAnd(a, b, n) ==
    IF n = 0 THEN 0
    ELSE 2 * BitAnd(a \div 2, b \div 2, n - 1) + (IF a % 2 = 1 /\ b % 2 = 1 THEN 1 ELSE 0)

BitNot(a) == MinusOne - a
BitOr(a, b) == BitNot(BitAnd(BitNot(a), BitNot(b), WordSize))

\* the ALU: the value of a comp mnemonic
ALU(comp, a, d, m) ==
    CASE comp = "0" -> 0
      [] comp = "1" -> 1
      [] comp = "-1" -> MinusOne
      [] comp = "D" -> d
      [] comp = "A" -> a
      [] comp = "M" -> m
      [] comp = "!D" -> BitNot(d)
      [] comp = "!A" -> BitNot(a)
      [] comp = "!M" -> BitNot(m)
      [] comp = "-D" -> Wrap(0 - d)
      [] comp = "-A" -> Wrap(0 - a)
      [] comp = "-M" -> Wrap(0 - m)
      [] comp = "D+1" -> Wrap(d + 1)
      [] comp = "A+1" -> Wrap(a + 1)
      [] comp = "M+1" -> Wrap(m + 1)
      [] comp = "D-1" -> Wrap(d - 1)
      [] comp = "A-1" -> Wrap(a - 1)
      [] comp = "M-1" -> Wrap(m - 1)
      [] comp = "D+A" -> Wrap(d + a)
      [] comp = "D+M" -> Wrap(d + m)
      [] comp = "D-A" -> Wrap(d - a)
      [] comp = "D-M" -> Wrap(d - m)
      [] comp = "A-D" -> Wrap(a - d)
      [] comp = "M-D" -> Wrap(m - d)
      [] comp = "D&A" -> BitAnd(d, a, WordSize)
      [] comp = "D&M" -> BitAnd(d, m, WordSize)
      [] comp = "D|A" -> BitOr(d, a)
      [] comp = "D|M" -> BitOr(d, m)

\* the registers a dest mnemonic names
DestRegs(dest) ==
    CASE dest = "" -> {}
      [] dest = "M" -> {"M"}
      [] dest = "D" -> {"D"}
      [] dest = "MD" -> {"M", "D"}
      [] dest = "A" -> {"A"}
      [] dest = "AM" -> {"A", "M"}
      [] dest = "AD" -> {"A", "D"}
      [] dest = "AMD" -> {"A", "M", "D"}

\* whether a jump mnemonic jumps on the ALU output
Jumps(jump, out) ==
    CASE jump = "" -> FALSE
      [] jump = "JGT" -> Signed(out) > 0
      [] jump = "JEQ" -> out = 0
      [] jump = "JGE" -> Signed(out) >= 0
      [] jump = "JLT" -> Signed(out) < 0
      [] jump = "JNE" -> out # 0
      [] jump = "JLE" -> Signed(out) <= 0
      [] jump = "JMP" -> TRUE

\* data memory: a cell that is not listed holds 0
Read(mem, a) == IF a \in DOMAIN mem THEN mem[a] ELSE 0
Write(mem, a, v) == [x \in DOMAIN mem \cup {a} |-> IF x = a THEN v ELSE mem[x]]

\* pass 1: a label is bound to the number of instructions before it
RomIndex(text, k) == Cardinality({j \in 1..(k - 1) : text[j].t # "L"})
LabelSyms(text) == {text[k].sym : k \in {j \in DOMAIN text : text[j].t = "L"}}
LabelRom(text, sym) ==
    RomIndex(text, Min({k \in DOMAIN text : text[k].t = "L" /\ text[k].sym = sym}))

\* pass 2: a symbol that is neither predefined nor a label is a variable, bound
\* to the next free RAM cell from 16 on in order of first appearance
IsSymbolUse(l) == l.t = "A" /\ ~l.num
VariableSyms(text) ==
    {text[k].sym : k \in {j \in DOMAIN text : IsSymbolUse(text[j])}}
    \ (DOMAIN SpecPredefined \cup LabelSyms(text))
FirstUse(text, sym) == Min({k \in DOMAIN text : IsSymbolUse(text[k]) /\ text[k].sym = sym})
VariableRam(text, sym) ==
    16 + Cardinality({v \in VariableSyms(text) : FirstUse(text, v) < FirstUse(text, sym)})

SymbolValue(text, sym) ==
    IF sym \in DOMAIN SpecPredefined THEN SpecPredefined[sym]
    ELSE IF sym \in LabelSyms(text) THEN LabelRom(text, sym)
    ELSE VariableRam(text, sym)

RECURSIVE AssembleFrom(_, _)
AssembleFrom(text, k) ==
    IF k > Len(text) THEN <<>>
    ELSE LET l == text[k]
         IN  (CASE l.t = "L" -> <<>>
                [] l.t = "A" -> << [t |-> "A", val |-> IF l.num THEN l.val
                                                       ELSE SymbolValue(text, l.sym)] >>
                [] l.t = "C" -> << l >>)
             \o AssembleFrom(text, k + 1)

\* the instruction memory the assembly text stands for
Assemble(text) == AssembleFrom(text, 1)

----------------------------------------------------------------------------
(* The inputs of the translator and the machine states its code is run from *)

\* the largest index of a push or pop
MaxIndex == 2
\* the longest command sequence spread over two files
MaxCmds == 2

\* SP after the bootstrap code
StackBase == 256
\* the last cell of the stack area
StackEnd == 2047

\* 16-bit words at the edges of the range: 0, 1, 5, 32767, -32768, -1
Values == {0, 1, 5, SignBit - 1, SignBit, MinusOne}

FarBases == [lcl |-> 300, arg |-> 310, this |-> 320, that |-> 330]
\* LCL on the first variable cell, ARG on a pointer, THIS and THAT in the stack
NearBases == [lcl |-> 16, arg |-> 1, this |-> StackBase + 1, that |-> StackBase + 3]

\* a stack holding 7, x, y (y on top) and the four segments with known contents
InitialRam(x, y, b) ==
    ((0 :> StackBase + 3) @@ (1 :> b.lcl) @@ (2 :> b.arg) @@ (3 :> b.this) @@ (4 :> b.that))
    @@ ((StackBase :> 7) @@ (StackBase + 1 :> x) @@ (StackBase + 2 :> y))
    @@ [a \in UNION {{base + i : i \in 0..MaxIndex} :
                        base \in {b.lcl, b.arg, b.this, b.that}} |-> 1000 + a]

\* the data memory of a callee about to return `value`: it was called with n
\* arguments by a caller whose LCL, ARG, THIS, THAT were the FarBases and
\* whose return address is ReturnTo
ReturnTo == 1000
CalleeRam(n, value) ==
    LET frame == StackBase + n
    IN  ((0 :> frame + 6) @@ (1 :> frame + 5) @@ (2 :> StackBase) @@ (3 :> 3000) @@ (4 :> 3010))
        @@ [a \in StackBase..(frame - 1) |-> 40 + a]
        @@ ((frame :> ReturnTo) @@ (frame + 1 :> FarBases.lcl) @@ (frame + 2 :> FarBases.arg)
            @@ (frame + 3 :> FarBases.this) @@ (frame + 4 :> FarBases.that)
            @@ (frame + 5 :> value))

\* the temp cells R5..R12 and the cell after them with known contents
TempRam == InitialRam(5, 9, FarBases) @@ [a \in 5..13 |-> 2000 + a]

\* programs with calls: one call, two calls in a function, calls in two functions
CallPrograms ==
    { <<VmLine("call", "Foo.bar", 3)>>,
      <<VmLine("function", "Baz.qux", 1), VmLine("call", "Foo.bar", 3),
        VmLine("call", "Foo.bar", 3)>>,
      <<VmLine("function", "Baz.qux", 0), VmLine("call", "Foo.bar", 0),
        VmLine("function", "Foo.bar", 0), VmLine("call", "Baz.qux", 0)>> }

\* programs of two functions that each hold `label IF_TRUE0`, as the Jack
\* compiler writes them for two subroutines with an `if`
LabelPrograms ==
    { <<VmLine("function", "Foo.f", 0), VmLine("label", "IF_TRUE0", 0),
        VmLine("function", "Foo.g", 0), VmLine("goto", "IF_TRUE0", 0),
        VmLine("label", "IF_TRUE0", 0)>>,
      <<VmLine("function", "Foo.f", 0), VmLine("push", "constant", 1),
        VmLine("if-goto", "IF_TRUE0", 0), VmLine("label", "IF_TRUE0", 0),
        VmLine("function", "Foo.g", 0), VmLine("push", "constant", 0),
        VmLine("if-goto", "IF_TRUE0", 0), VmLine("label", "IF_FALSE0", 0),
        VmLine("label", "IF_TRUE0", 0)>>,
      <<VmLine("function", "Foo.f", 0), VmLine("label", "IF_TRUE0", 0),
        VmLine("label", "IF_FALSE0", 0)>> }

ArithmeticOps == {"add", "sub", "neg", "eq", "gt", "lt", "and", "or", "not"}
PointerSegments == {"local", "argument", "this", "that"}

OneFile(line, mem) ==
    [path |-> [is_dir |-> FALSE, stem |-> "Foo"],
     files |-> << [name |-> "Foo", lines |-> line] >>,
     ram |-> mem]

\* a directory Dir of Foo.vm and Bar.vm (Bar.vm begins with a comment line),
\* read in either order
TwoFiles(lines, k, fooFirst) ==
    LET foo == [name |-> "Foo", lines |-> SubSeq(lines, 1, k)]
        bar == [name |-> "Bar", lines |-> <<VmLine("", "", 0)>> \o SubSeq(lines, k + 1, Len(lines))]
    IN  [path |-> [is_dir |-> TRUE, stem |-> "Dir"],
         files |-> IF fooFirst THEN <<foo, bar>> ELSE <<bar, foo>>,
         ram |-> InitialRam(5, 9, FarBases)]

\* the commands the two-file programs are made of
SharedCmds ==
    { VmLine("eq", "", 0), VmLine("gt", "", 0), VmLine("lt", "", 0),
      VmLine("pop", "static", 0), VmLine("push", "static", 0) }

VmTests ==
    {OneFile(<<VmLine(op, "", 0)>>, InitialRam(x, y, FarBases)) :
        op \in ArithmeticOps, x \in Values, y \in Values}
    \cup {OneFile(<<VmLine(op, seg, i)>>, InitialRam(5, y, b)) :
            op \in {"push", "pop"}, seg \in PointerSegments, i \in 0..MaxIndex,
            y \in {9, MinusOne}, b \in {FarBases, NearBases}}
    \cup {OneFile(<<VmLine(op, "static", i)>>, InitialRam(5, 9, FarBases)) :
            op \in {"push", "pop"}, i \in 0..MaxIndex}
    \cup {OneFile(<<VmLine("push", "constant", 7), VmLine("push", "constant", 8),
                    VmLine("add", "", 0)>>, InitialRam(5, 9, FarBases)),
          OneFile(<<VmLine("pop", "constant", 7)>>, InitialRam(5, 9, FarBases)),
          OneFile(<<VmLine("push", "heap", 7)>>, InitialRam(5, 9, FarBases))}
    \cup {OneFile(<<VmLine(op, "temp", i)>>, TempRam) : op \in {"push", "pop"}, i \in {0, 7, 8}}
    \cup {OneFile(<<VmLine(op, "pointer", i)>>, TempRam) : op \in {"push", "pop"}, i \in {0, 1, 2}}
    \cup {OneFile(<<VmLine("return", "", 0)>>, CalleeRam(n, value)) :
            n \in 0..MaxIndex, value \in {42, MinusOne}}
    \cup {OneFile(lines, InitialRam(5, 9, FarBases)) : lines \in CallPrograms}
    \cup {OneFile(lines, InitialRam(5, 9, FarBases)) : lines \in LabelPrograms}
    \cup UNION {{TwoFiles(lines, k, fooFirst) : k \in 0..Len(lines), fooFirst \in BOOLEAN} :
                    lines \in SeqsUpTo(SharedCmds, MaxCmds) \ {<<>>}}

----------------------------------------------------------------------------
(* main of the translator, and the machine run on what it wrote *)

VmInit ==
    \E test \in VmTests :
        /\ input_path = test.path
        /\ vmFiles = test.files
        /\ ram0 = test.ram
        /\ ram = test.ram
    /\ fileNo = 1
    /\ vmLineNo = 1
    /\ counter = [eq |-> 0, gt |-> 0, lt |-> 0]
    /\ commands = <<>>
    /\ context = Context_new("")
    /\ cmdNo = 1
    /\ asmOut = <<>>
    /\ cmdStart = <<>>
    /\ vmStatus = "reading"
    /\ rom = <<>>
    /\ regA = 0
    /\ regD = 0
    /\ pc = 0
    /\ cpuStatus = "off"

\* one turn of `for line in reader.lines()`
ReadLine ==
    /\ vmStatus = "reading"
    /\ fileNo <= Len(vmFiles)
    /\ vmLineNo <= Len(vmFiles[fileNo].lines)
    /\ LET r == vm_parse_line(vmFiles[fileNo].lines[vmLineNo], counter)
       IN  IF r.panic
           THEN /\ vmStatus' = "panic"
                /\ UNCHANGED <<vmLineNo, counter, commands>>
           ELSE /\ commands' = commands \o r.cmd
                /\ counter' = r.counter
                /\ vmLineNo' = vmLineNo + 1
                /\ UNCHANGED vmStatus
    /\ UNCHANGED <<input_path, vmFiles, fileNo, context, cmdNo, asmOut, cmdStart,
                   rom, ram, ram0, regA, regD, pc, cpuStatus>>
    /\ UNCHANGED <<asmVars, jackVars>>

\* one turn of `for reader in readers`: the reader is drained
NextReader ==
    /\ vmStatus = "reading"
    /\ fileNo <= Len(vmFiles)
    /\ vmLineNo > Len(vmFiles[fileNo].lines)
    /\ fileNo' = fileNo + 1
    /\ vmLineNo' = 1
    /\ UNCHANGED <<input_path, vmFiles, counter, commands, context, cmdNo, asmOut,
                   cmdStart, vmStatus, rom, ram, ram0, regA, regD, pc, cpuStatus>>
    /\ UNCHANGED <<asmVars, jackVars>>

\* the context is created and the bootstrap code is written
WriteBootstrap ==
    /\ vmStatus = "reading"
    /\ fileNo > Len(vmFiles)
    /\ context' = Context_new(PrefixOf(input_path))
    /\ asmOut' = Bootstrap(PrefixOf(input_path))
    /\ cmdNo' = 1
    /\ vmStatus' = "writing"
    /\ UNCHANGED <<input_path, vmFiles, fileNo, vmLineNo, counter, commands, cmdStart,
                   rom, ram, ram0, regA, regD, pc, cpuStatus>>
    /\ UNCHANGED <<asmVars, jackVars>>

\* one turn of `for cmd in commands`: context.update(&cmd), then
\* cmd.to_asm_text(&context).unwrap() is written
WriteCommand ==
    /\ vmStatus = "writing"
    /\ cmdNo <= Len(commands)
    /\ LET cmd == commands[cmdNo]
           ctx == Context_update(context, cmd)
           r == to_asm_text(cmd, ctx)
       IN  /\ context' = ctx
           /\ IF r.ok
              THEN /\ asmOut' = asmOut \o r.text
                   /\ cmdStart' = Append(cmdStart, Len(asmOut))
                   /\ cmdNo' = cmdNo + 1
                   /\ UNCHANGED vmStatus
              ELSE /\ vmStatus' = "panic"
                   /\ UNCHANGED <<asmOut, cmdStart, cmdNo>>
    /\ UNCHANGED <<input_path, vmFiles, fileNo, vmLineNo, counter, commands,
                   rom, ram, ram0, regA, regD, pc, cpuStatus>>
    /\ UNCHANGED <<asmVars, jackVars>>

\* every command is written: Ok(())
VmFinish ==
    /\ vmStatus = "writing"
    /\ cmdNo > Len(commands)
    /\ vmStatus' = "done"
    /\ UNCHANGED <<input_path, vmFiles, fileNo, vmLineNo, counter, commands, context,
                   cmdNo, asmOut, cmdStart, rom, ram, ram0, regA, regD, pc, cpuStatus>>
    /\ UNCHANGED <<asmVars, jackVars>>

\* the .asm file is assembled and the machine is started on the code of the
\* commands (the code after the bootstrap) with the data memory of the test
PowerOn ==
    /\ vmStatus = "done"
    /\ cpuStatus = "off"
    /\ rom' = Assemble(asmOut)
    /\ pc' = RomIndex(asmOut, Len(Bootstrap(PrefixOf(input_path))) + 1)
    /\ cpuStatus' = "running"
    /\ UNCHANGED <<input_path, vmFiles, fileNo, vmLineNo, counter, commands, context,
                   cmdNo, asmOut, cmdStart, vmStatus, ram, ram0, regA, regD>>
    /\ UNCHANGED <<asmVars, jackVars>>

\* one instruction of the Hack machine
Tick ==
    /\ cpuStatus = "running"
    /\ pc < Len(rom)
    /\ Read(ram, 0) \in StackBase..StackEnd
    /\ LET inst == rom[pc + 1]
       IN  IF inst.t = "A"
           THEN /\ regA' = inst.val
                /\ pc' = pc + 1
                /\ UNCHANGED <<regD, ram>>
           ELSE LET out == ALU(inst.comp, regA, regD, Read(ram, regA))
                    dest == DestRegs(inst.dest)
                IN  /\ regA' = IF "A" \in dest THEN out ELSE regA
                    /\ regD' = IF "D" \in dest THEN out ELSE regD
                    /\ ram' = IF "M" \in dest THEN Write(ram, regA, out) ELSE ram
                    \* a jump of an instruction that also loads A: the CPU chip
                    \* takes the address A held, the course's CPU emulator the
                    \* one just loaded
                    /\ pc' \in IF ~Jumps(inst.jump, out) THEN {pc + 1}
                               ELSE IF "A" \in dest THEN {regA, out}
                               ELSE {regA}
    /\ UNCHANGED <<input_path, vmFiles, fileNo, vmLineNo, counter, commands, context,
                   cmdNo, asmOut, cmdStart, vmStatus, rom, ram0, cpuStatus>>
    /\ UNCHANGED <<asmVars, jackVars>>

\* the program counter has left the code
Halt ==
    /\ cpuStatus = "running"
    /\ pc >= Len(rom)
    /\ cpuStatus' = "halted"
    /\ UNCHANGED <<input_path, vmFiles, fileNo, vmLineNo, counter, commands, context,
                   cmdNo, asmOut, cmdStart, vmStatus, rom, ram, ram0, regA, regD, pc>>
    /\ UNCHANGED <<asmVars, jackVars>>

VmNext ==
    \/ ReadLine \/ NextReader \/ WriteBootstrap \/ WriteCommand \/ VmFinish
    \/ PowerOn \/ Tick \/ Halt

\* the assembler is not run
AsmIdle ==
    /\ asmProgram = <<>>
    /\ lineNo = 1
    /\ symbol_table = init_symbol_table(CollectHashMap(PREDEFINED_SYMBOL))
    /\ instructions = <<>>
    /\ lineTypes = <<>>
    /\ asmStatus = "done"

InitVM == VmInit /\ AsmIdle /\ JackIdle

SpecVM == InitVM /\ [][VmNext]_vars

----------------------------------------------------------------------------
(* Reading the translator's output *)

\* the lines of asmOut written for command k
CodeOf(k) ==
    SubSeq(asmOut, cmdStart[k] + 1,
           IF k < Len(cmdStart) THEN cmdStart[k + 1] ELSE Len(asmOut))

\* the file each command came from, in the order the files were read
RECURSIVE FilesOfCommands(_)
FilesOfCommands(f) ==
    IF f > Len(vmFiles) THEN <<>>
    ELSE [k \in 1..Len(SelectSeq(vmFiles[f].lines, LAMBDA l : l.op # "")) |-> vmFiles[f].name]
         \o FilesOfCommands(f + 1)
CommandFile(k) == FilesOfCommands(1)[k]

\* the assembly symbols of the code of command k that are not predefined
SymbolsOf(k) ==
    LET code == CodeOf(k)
    IN  {code[j].sym : j \in {n \in DOMAIN code : IsSymbolUse(code[n])}} \ DOMAIN SpecPredefined

\* the labels the code of command k defines
LabelsDefinedBy(k) ==
    LET code == CodeOf(k)
    IN  {code[j].sym : j \in {n \in DOMAIN code : code[n].t = "L"}}

IsCompare(cmd) == cmd.struct = "Arithmetic" /\ cmd.arithmetic \in {"Eq", "Gt", "Lt"}
IsStatic(cmd) == cmd.struct = "MemoryAccess" /\ cmd.segment = "Static"

\* the program is the single command `line`, and the machine has run its code
RanSingle(line) ==
    /\ cpuStatus = "halted"
    /\ Len(vmFiles) = 1
    /\ vmFiles[1].lines = <<line>>

SP0 == Read(ram0, 0)
Cells == DOMAIN ram \cup DOMAIN ram0
Truth(b) == IF b THEN MinusOne ELSE 0

\* what a VM operation computes on 16-bit two's-complement x and y
OperationResult(op, x, y) ==
    CASE op = "add" -> Word16(Signed(x) + Signed(y))
      [] op = "sub" -> Word16(Signed(x) - Signed(y))
      [] op = "and" -> BitAnd(x, y, WordSize)
      [] op = "or" -> BitOr(x, y)
      [] op = "eq" -> Truth(x = y)
      [] op = "gt" -> Truth(Signed(x) > Signed(y))
      [] op = "lt" -> Truth(Signed(x) < Signed(y))
      [] op = "neg" -> Word16(0 - Signed(y))
      [] op = "not" -> BitNot(y)

BinaryOps == {"add", "sub", "and", "or", "eq", "gt", "lt"}
UnaryOps == {"neg", "not"}

\* the stack effect of the code of the arithmetic command op, with the
\* result required only where `checked` says so
StackEffect(op, checked) ==
    LET x == Read(ram0, SP0 - 2)
        y == Read(ram0, SP0 - 1)
    IN  IF op \in BinaryOps
        THEN /\ Read(ram, 0) = SP0 - 1
             /\ checked => Read(ram, SP0 - 2) = OperationResult(op, x, y)
             /\ \A a \in Cells : (StackBase <= a /\ a < SP0 - 2) => Read(ram, a) = Read(ram0, a)
        ELSE /\ Read(ram, 0) = SP0
             /\ Read(ram, SP0 - 1) = OperationResult(op, x, y)
             /\ \A a \in Cells \ {SP0 - 1} : Read(ram, a) = Read(ram0, a)

\* x - y fits in 16 bits
DifferenceFits(x, y) ==
    Signed(x) - Signed(y) >= 0 - SignBit /\ Signed(x) - Signed(y) < SignBit

----------------------------------------------------------------------------
(* Properties of the VM translator *)

\* C7: run from a stack holding x below y, the code of add, sub, and, or, eq,
\* gt, lt leaves SP one lower, the operation's result where x was and the
\* stack cells below unchanged; the code of neg, not leaves SP and replaces
\* only the top cell.
C7_ArithmeticStackEffect ==
    \A op \in ArithmeticOps : RanSingle(VmLine(op, "", 0)) => StackEffect(op, TRUE)

\* C7 without the results of gt and lt on operands whose difference does
\* not fit in 16 bits: this much of C7 holds
C7_ExceptComparisonOverflow ==
    \A op \in ArithmeticOps :
        RanSingle(VmLine(op, "", 0)) =>
            StackEffect(op, op \in {"gt", "lt"} =>
                                DifferenceFits(Read(ram0, SP0 - 2), Read(ram0, SP0 - 1)))

\* C8: in one run over all files, no jump label is defined by two expansions
\* of eq, gt and lt; the n-th eq uses IsEq.n (IsEq.1, then IsEq.2).
C8_CompareLabelsUnique ==
    vmStatus = "done" =>
        /\ \A j, k \in DOMAIN commands :
              (j # k /\ IsCompare(commands[j]) /\ IsCompare(commands[k])) =>
                  LabelsDefinedBy(j) \cap LabelsDefinedBy(k) = {}
        /\ \A k \in DOMAIN commands :
              IsCompare(commands[k]) =>
                  \A m, n \in DOMAIN CodeOf(k) :
                      (m # n /\ CodeOf(k)[m].t = "L" /\ CodeOf(k)[n].t = "L") =>
                          CodeOf(k)[m].sym # CodeOf(k)[n].sym
        /\ \A k \in DOMAIN commands :
              (commands[k].struct = "Arithmetic" /\ commands[k].arithmetic = "Eq") =>
                  LET nth == Cardinality({j \in 1..k : commands[j] \in
                                            {Arithmetic_new("Eq", id) : id \in 1..k}})
                      label == Dot("IsEq", ToString(nth))
                  IN  /\ LabelsDefinedBy(k) = {label}
                      /\ SymbolsOf(k) = {label}

C8_Witness ==
    /\ vmStatus = "done"
    /\ input_path.is_dir
    /\ Len(commands) = 2
    /\ commands[1] = Arithmetic_new("Eq", 1)
    /\ commands[2] = Arithmetic_new("Eq", 2)
    /\ CommandFile(1) # CommandFile(2)
    /\ LabelsDefinedBy(1) = {"IsEq.1"}
    /\ LabelsDefinedBy(2) = {"IsEq.2"}

BasePointer == ("local" :> 1) @@ ("argument" :> 2) @@ ("this" :> 3) @@ ("that" :> 4)

\* the cells of the translator's scratch symbol <prefix>.tmp
ScratchCells ==
    LET tmp == Dot(PrefixOf(input_path), "tmp")
    IN  IF tmp \in VariableSyms(asmOut) THEN {VariableRam(asmOut, tmp)} ELSE {}

\* C9: for local, argument, this, that with base pointer B: push s i writes
\* RAM[RAM[B]+i] to the cell at the old SP and adds 1 to SP; pop s i takes 1
\* from SP and writes the popped value to RAM[RAM[B]+i]; LCL, ARG, THIS, THAT
\* keep their values and no other cell but the scratch cell is written
\* (provided the addressed cell is not SP or a base pointer).
C9_SegmentAccess ==
    \A seg \in PointerSegments, i \in 0..MaxIndex :
        LET addressed == Read(ram0, BasePointer[seg]) + i
        IN  addressed \notin 0..4 =>
              /\ RanSingle(VmLine("push", seg, i)) =>
                    /\ Read(ram, 0) = SP0 + 1
                    /\ Read(ram, SP0) = Read(ram0, addressed)
                    /\ \A a \in Cells \ ({0, SP0} \cup ScratchCells) :
                          Read(ram, a) = Read(ram0, a)
              /\ RanSingle(VmLine("pop", seg, i)) =>
                    /\ Read(ram, 0) = SP0 - 1
                    /\ Read(ram, addressed) = Read(ram0, SP0 - 1)
                    /\ \A a \in Cells \ ({0, addressed} \cup ScratchCells) :
                          Read(ram, a) = Read(ram0, a)

C9_Witness ==
    /\ RanSingle(VmLine("pop", "that", 2))
    /\ Read(ram0, 4) = FarBases.that
    /\ Read(ram0, SP0 - 1) = MinusOne
    /\ Read(ram, FarBases.that + 2) = MinusOne
    /\ Read(ram, 0) = SP0 - 1

\* C10: in a directory of two files, static i of one file and static i of
\* the other are different assembly symbols, each qualified by its file's
\* name, so a pop static i of one file leaves the value a push static i of
\* the other file reads as it was.
C10_StaticPerFile ==
    /\ vmStatus = "done" =>
          \A j, k \in DOMAIN commands :
              (/\ IsStatic(commands[j]) /\ IsStatic(commands[k])
               /\ commands[j].index = commands[k].index
               /\ CommandFile(j) # CommandFile(k)) =>
                  /\ SymbolsOf(j) \cap SymbolsOf(k) = {}
                  /\ SymbolsOf(j) = {Dot(CommandFile(j), ToString(commands[j].index))}
    /\ (/\ cpuStatus = "halted"
        /\ Len(commands) = 2
        /\ commands[1] = [struct |-> "MemoryAccess", command |-> "Pop",
                          segment |-> "Static", index |-> 0]
        /\ commands[2] = [commands[1] EXCEPT !.command = "Push"]
        /\ CommandFile(1) # CommandFile(2)) =>
             \* the push reads the initial content of its file's static 0,
             \* which no cell of ram0 lists: 0
             Read(ram, Read(ram, 0) - 1) = 0

----------------------------------------------------------------------------
(* Calls and returns *)

IsCall(cmd) == cmd.struct = "Function" /\ cmd.command = "Call"
IsFunction(cmd) == cmd.struct = "Function" /\ cmd.command = "Function"

\* the symbols other than SP the A-instructions of `code` name, in order
SymbolUses(code) ==
    LET uses == SelectSeq(code, LAMBDA l : IsSymbolUse(l) /\ l.sym # "SP")
    IN  [j \in DOMAIN uses |-> uses[j].sym]

\* the number of pushes in `code`: increments of SP
Pushes(code) ==
    Cardinality({j \in DOMAIN code : j > 1 /\ code[j] = C("M", "M+1", "")
                                         /\ code[j - 1] = At("SP")})

\* the shape section 4.5 gives the code of `call f n`
IsCallCode(code, f, n) ==
    /\ Len(code) >= 3
    /\ code[Len(code)].t = "L"
    /\ LET ret == code[Len(code)].sym
           uses == SymbolUses(code)
       IN  /\ code[Len(code) - 1] = C("", "0", "JMP")
           /\ code[Len(code) - 2] = At(f)
           /\ Pushes(code) = 5
           /\ Len(uses) >= 8
           /\ SubSeq(uses, 1, 5) = <<ret, "LCL", "ARG", "THIS", "THAT">>
           /\ SubSeq(uses, Len(uses) - 2, Len(uses)) = <<"ARG", "LCL", f>>
           /\ \E j \in DOMAIN code : code[j] = AtNum(n + 5)

\* C11: the code of `call f n` pushes the return address, LCL, ARG, THIS and
\* THAT (five pushes), sets ARG to SP - n - 5 and LCL to SP, jumps to f, and
\* defines the return-address label right after the jump.
C11_CallCode ==
    vmStatus = "done" =>
        \A k \in DOMAIN commands :
            IsCall(commands[k]) =>
                IsCallCode(CodeOf(k), commands[k].name[1], commands[k].argument_num[1])

\* the call main writes in the bootstrap code has the shape C11 asks for
BootstrapCallHasShape ==
    vmStatus = "done" =>
        IsCallCode(SubSeq(asmOut, 5, Len(Bootstrap(PrefixOf(input_path)))), "Sys.init", 0)

\* the function a command stands in: the last `function` before it
EnclosingFunction(k) ==
    LET fs == {j \in 1..k : IsFunction(commands[j])}
    IN  IF fs = {} THEN "" ELSE commands[CHOOSE j \in fs : \A i \in fs : i <= j].name[1]

\* the number of calls from the beginning of the enclosing function up to k
CallOrdinal(k) ==
    LET fs == {j \in 1..k : IsFunction(commands[j])}
        from == IF fs = {} THEN 1 ELSE CHOOSE j \in fs : \A i \in fs : i <= j
    IN  Cardinality({j \in from..k : IsCall(commands[j])})

\* C12: every call defines the return-address label <enclosing function>$ret.<i>,
\* i counting the calls inside that function from 1, and no two calls of a
\* translation define the same return-address label.
C12_ReturnLabels ==
    vmStatus = "done" =>
        /\ \A k \in DOMAIN commands :
              IsCall(commands[k]) =>
                  LabelsDefinedBy(k) =
                      {EnclosingFunction(k) \o "$ret." \o ToString(CallOrdinal(k))}
        /\ \A j, k \in DOMAIN commands :
              (j # k /\ IsCall(commands[j]) /\ IsCall(commands[k])) =>
                  LabelsDefinedBy(j) \cap LabelsDefinedBy(k) = {}

\* the program is the single command `return`, started in a callee's frame
RunsReturn ==
    /\ cpuStatus # "off"
    /\ Len(vmFiles) = 1
    /\ vmFiles[1].lines = <<VmLine("return", "", 0)>>

LCL0 == Read(ram0, 1)
ARG0 == Read(ram0, 2)
\* the ROM addresses of the code of the command
CommandRom == RomIndex(asmOut, cmdStart[1] + 1)..(Len(rom) - 1)

\* the state the code of return has to reach before its jump
FrameRestored ==
    /\ Read(ram, ARG0) = Read(ram0, SP0 - 1)
    /\ Read(ram, 0) = ARG0 + 1
    /\ Read(ram, 4) = Read(ram0, LCL0 - 1)
    /\ Read(ram, 3) = Read(ram0, LCL0 - 2)
    /\ Read(ram, 2) = Read(ram0, LCL0 - 3)
    /\ Read(ram, 1) = Read(ram0, LCL0 - 4)

C13_ExceptJump ==
    (RunsReturn /\ pc = Len(rom) - 1) =>
        /\ FrameRestored
        /\ Read(ram, regA) = Read(ram0, LCL0 - 5)

\* the cell `temp i` or `pointer i` stands for
FixedCell == ("temp" :> 5) @@ ("pointer" :> 3)
\* the indices section 4.5 accepts
AcceptedIndices == ("Temp" :> 0..7) @@ ("Pointer" :> 0..1)

OutOfRange(cmd) ==
    /\ cmd.struct = "MemoryAccess"
    /\ cmd.segment \in DOMAIN AcceptedIndices
    /\ cmd.index \notin AcceptedIndices[cmd.segment]

\* what C14 says of the accepted indices: temp i is cell R5+i, pointer 0 is
\* THIS and pointer 1 is THAT
FixedSegmentAccess ==
    \A seg \in DOMAIN FixedCell, i \in 0..7 :
        (seg = "pointer" => i <= 1) =>
            /\ RanSingle(VmLine("push", seg, i)) =>
                  /\ Read(ram, 0) = SP0 + 1
                  /\ Read(ram, SP0) = Read(ram0, FixedCell[seg] + i)
            /\ RanSingle(VmLine("pop", seg, i)) =>
                  /\ Read(ram, 0) = SP0 - 1
                  /\ Read(ram, FixedCell[seg] + i) = Read(ram0, SP0 - 1)

\* C14: push/pop temp i is accepted exactly for 0 <= i <= 7 and addresses
\* R5+i, push/pop pointer i exactly for i in {0, 1}, addressing THIS and
\* THAT; temp 8 and pointer 2 are rejected and no assembly is written for them.
C14_TempPointerRange ==
    /\ FixedSegmentAccess
    /\ \A k \in DOMAIN commands :
          OutOfRange(commands[k]) => (vmStatus # "done" /\ Len(cmdStart) < k)

----------------------------------------------------------------------------
(* Jack tokenizer: projects/jack_compiler/src/tokenizer.rs                  *)
(* A token is [type, value, number]: value the characters of the token,     *)
(* number the u16 of an IntegerConstant (0 for the other types).            *)

SYMBOL_LIST ==
    << "}", "{", ")", "(", "[", "]", ".", ",", ";", "+", "-", "*", "/", "&", "|", "<", ">",
       "=", "~" >>

KEYWORD_LIST ==
    << "class", "constructor", "function", "method", "field", "static", "var", "int", "char",
       "boolean", "void", "true", "false", "null", "this", "let", "do", "if", "else", "while",
       "return" >>

\* [T; N]::contains
Contains(list, x) == \E i \in DOMAIN list : list[i] = x

MkToken(type, value, number) == [type |-> type, value |-> value, number |-> number]
SymbolToken(c) == MkToken("Symbol", <<c>>, 0)

\* a new CommentState with the given in_region
CommentState(in_region) ==
    [in_region |-> in_region, next_maybe_line_begin |-> FALSE,
     next_maybe_region_begin |-> FALSE, next_maybe_region_end |-> FALSE]

\* the result of update_comment_state: the state it leaves and what it returns
Continue(state) == [state |-> state, result |-> "Continue"]
LineComment(state) == [state |-> state, result |-> "LineComment"]

update_comment_state(state, c) ==
    IF state.in_region
    THEN CASE c = "/" ->
                IF state.next_maybe_region_end
                THEN Continue([state EXCEPT !.in_region = FALSE,
                                            !.next_maybe_region_end = FALSE])
                ELSE Continue(state)
           [] c = "*" ->
                IF ~state.next_maybe_region_end
                THEN Continue([state EXCEPT !.next_maybe_region_end = TRUE])
                ELSE Continue(state)
           [] OTHER -> Continue([state EXCEPT !.next_maybe_region_end = FALSE])
    ELSE CASE c = "/" ->
                IF state.next_maybe_line_begin
                THEN LineComment(state)
                ELSE Continue([state EXCEPT !.next_maybe_line_begin = TRUE,
                                            !.next_maybe_region_begin = TRUE])
           [] c = "*" ->
                IF state.next_maybe_region_begin
                THEN Continue([state EXCEPT !.in_region = TRUE,
                                            !.next_maybe_line_begin = FALSE,
                                            !.next_maybe_region_begin = FALSE])
                ELSE Continue(state)
           [] OTHER -> Continue([state EXCEPT !.next_maybe_line_begin = FALSE,
                                              !.next_maybe_region_begin = FALSE])

\* extract_token: [ok, panic, token]; the unwrap of parse::<u16> panics
extract_token(stash) ==
    LET none == MkToken("", <<>>, 0)
    IN  IF Len(stash) = 0 THEN [ok |-> FALSE, panic |-> FALSE, token |-> none]
        ELSE IF Len(stash) = 1 /\ Contains(SYMBOL_LIST, stash[1])
        THEN [ok |-> TRUE, panic |-> FALSE, token |-> SymbolToken(stash[1])]
        ELSE IF stash[1] \in Digits
        THEN LET n == parse_u16(stash)
             IN  IF n.ok
                 THEN [ok |-> TRUE, panic |-> FALSE,
                       token |-> MkToken("IntegerConstant", stash, n.value)]
                 ELSE [ok |-> FALSE, panic |-> TRUE, token |-> none]
        ELSE IF Contains(KEYWORD_LIST, Str(stash))
        THEN [ok |-> TRUE, panic |-> FALSE, token |-> MkToken("Keyword", stash, 0)]
        ELSE [ok |-> TRUE, panic |-> FALSE, token |-> MkToken("Identifier", stash, 0)]

\* parse_line: the CommentState a line starts with, without the carried flag
LineCommentState_fresh(ctx) == CommentState(FALSE)

\* parse_line: the CommentState a line starts with
LineCommentState(ctx) == CommentState(ctx.in_comment)

\* parse_line: the LineContext, with the token list, whether the loop was
\* left by `break` and whether an unwrap panicked
LineContext(ctx) ==
    [comment |-> LineCommentState(ctx), in_string |-> FALSE, char_stash |-> <<>>,
     token_list |-> <<>>, broke |-> FALSE, panic |-> FALSE]

\* `token_list.push(extract_token(&ctx.char_stash).unwrap()); ctx.char_stash.clear()`
\* when the stash is not empty
FlushStash(lc) ==
    IF lc.char_stash = <<>> THEN lc
    ELSE LET t == extract_token(lc.char_stash)
         IN  IF t.ok
             THEN [lc EXCEPT !.token_list = Append(@, t.token), !.char_stash = <<>>]
             ELSE [lc EXCEPT !.panic = TRUE]

\* parse_line: one turn of `for c in line.chars()`
ParseChar(lc, c) ==
    IF lc.in_string
    THEN IF c = "\""
         THEN [lc EXCEPT !.token_list = Append(@, MkToken("StringConstant", lc.char_stash, 0)),
                         !.char_stash = <<>>, !.in_string = FALSE]
         ELSE [lc EXCEPT !.char_stash = Append(@, c)]
    ELSE LET ret == update_comment_state(lc.comment, c)
             l1 == [lc EXCEPT !.comment = ret.state]
         IN  IF ret.result = "LineComment" THEN [l1 EXCEPT !.broke = TRUE]
             ELSE IF l1.comment.in_region THEN [l1 EXCEPT !.char_stash = <<>>]
             ELSE IF c \in Whitespace THEN FlushStash(l1)
             ELSE IF c = "\"" THEN [l1 EXCEPT !.in_string = TRUE]
             ELSE IF Contains(SYMBOL_LIST, c)
             THEN IF c = "/" THEN [l1 EXCEPT !.char_stash = Append(@, c)]
                  ELSE LET l2 == FlushStash(l1)
                       IN  IF l2.panic THEN l2
                           ELSE [l2 EXCEPT !.token_list = Append(@, SymbolToken(c))]
             ELSE [l1 EXCEPT !.char_stash = Append(@, c)]

RECURSIVE ParseChars(_, _, _)
\* parse_line: the loop over the characters from the i-th on
ParseChars(lc, line, i) ==
    IF i > Len(line) \/ lc.broke \/ lc.panic THEN lc
    ELSE ParseChars(ParseChar(lc, line[i]), line, i + 1)

\* parse_line: [panic, in_comment (the context it leaves), token_list]
jack_parse_line(ctx, line) ==
    LET lc == ParseChars(LineContext(ctx), line, 1)
    IN  [panic |-> lc.panic, in_comment |-> lc.comment.in_region, token_list |-> lc.token_list]

\* BufRead::lines of a text whose line ends are "\n"
Lines(text) ==
    LET parts == Split(text, "\n")
    IN  IF parts[Len(parts)] = <<>> THEN SubSeq(parts, 1, Len(parts) - 1) ELSE parts

----------------------------------------------------------------------------
(* Jack source texts. A source is [kind, text, flat, expected, fails]: the  *)
(* characters of the file, the same text with the line breaks inside block  *)
(* comments turned into blanks, the tokens section 4.1 asks for, and        *)
(* whether section 4.1 asks the scanner to fail.                            *)

MkSource(kind, text, flat, expected, fails) ==
    [kind |-> kind, text |-> text, flat |-> flat, expected |-> expected, fails |-> fails]

\* the longest sequence of pieces, the longest comment body
MaxPieces == 2
MaxBody == 3

\* a piece of source text and the tokens it stands for
Piece(class, text, toks) == [class |-> class, text |-> text, toks |-> toks]
Pieces ==
    { Piece("word", <<"x">>, <<MkToken("Identifier", <<"x">>, 0)>>),
      Piece("word", <<"l", "e", "t">>, <<MkToken("Keyword", <<"l", "e", "t">>, 0)>>),
      Piece("word", <<"1", "2">>, <<MkToken("IntegerConstant", <<"1", "2">>, 12)>>),
      Piece("symbol", <<";">>, <<SymbolToken(";")>>),
      Piece("symbol", <<"/">>, <<SymbolToken("/")>>),
      Piece("line comment", <<"/", "/", "c", ";">>, <<>>),
      Piece("block comment", <<"/", "*", "c", ";", "*", "/">>, <<>>) }
Separators == {<<>>, <<" ">>, <<"\n">>}
IsComment(p) == p.class \in {"line comment", "block comment"}

\* a sequence of [piece, sep] that reads as its pieces: words are separated,
\* a `/` is not followed by a `/`, a line comment ends with its line
Legal(ps) ==
    /\ \A i \in DOMAIN ps : ps[i].piece.class = "line comment" => ps[i].sep = <<"\n">>
    /\ \A i \in 1..(Len(ps) - 1) :
          ps[i].sep = <<>> =>
              /\ ~(ps[i].piece.class = "word" /\ ps[i + 1].piece.class = "word")
              /\ ~(ps[i].piece.text = <<"/">> /\ Head(ps[i + 1].piece.text) = "/")

RECURSIVE PiecesText(_)
PiecesText(ps) ==
    IF ps = <<>> THEN <<>> ELSE Head(ps).piece.text \o Head(ps).sep \o PiecesText(Tail(ps))
RECURSIVE PiecesTokens(_)
PiecesTokens(ps) ==
    IF ps = <<>> THEN <<>> ELSE Head(ps).piece.toks \o PiecesTokens(Tail(ps))

\* no token of the pieces is the last thing on its line
NoTokenEndsLine(ps) ==
    \A i \in DOMAIN ps :
        ps[i].piece.class \in {"word", "symbol"} =>
            /\ ps[i].sep # <<"\n">>
            /\ ~(i = Len(ps) /\ ps[i].sep = <<>>)

PieceSources ==
    { MkSource(IF \E i \in DOMAIN ps : IsComment(ps[i].piece)
               THEN (IF NoTokenEndsLine(ps) THEN "comments" ELSE "comments, token at line end")
               ELSE "pieces",
               PiecesText(ps), PiecesText(ps), PiecesTokens(ps), FALSE) :
        ps \in {q \in SeqsUpTo([piece : Pieces, sep : Separators], MaxPieces) : Legal(q)} }

\* block comments between fixed code
CodeBefore == {<<>>, <<"x", " ">>, <<"x">>, <<";">>}
CodeAfter == {<<>>, <<" ", "y", " ", ";">>, <<"y", ";">>, <<";">>, <<"\n", "y", " ">>}
Closes(body) == \E i \in 1..(Len(body) - 1) : body[i] = "*" /\ body[i + 1] = "/"
CommentBodies == {b \in SeqsUpTo({"c", "*", "/", " ", "\n"}, MaxBody) : ~Closes(b)}
Flat(body) == [i \in DOMAIN body |-> IF body[i] = "\n" THEN " " ELSE body[i]]
BlockComment(body) == <<"/", "*">> \o body \o <<"*", "/">>
LineBreaks(body) == Cardinality({i \in DOMAIN body : body[i] = "\n"})

CommentSources ==
    { MkSource("block comment", before \o BlockComment(body) \o after,
               before \o BlockComment(Flat(body)) \o after, <<>>, FALSE) :
        before \in CodeBefore, body \in CommentBodies, after \in CodeAfter }

\* a reserved symbol with a character before and after it, then a blank
Neighbours == {<<>>, <<"x">>, <<"7">>, <<" ">>, <<";">>}
NeighbourTokens(n) ==
    CASE n = <<"x">> -> <<MkToken("Identifier", n, 0)>>
      [] n = <<"7">> -> <<MkToken("IntegerConstant", n, 7)>>
      [] n = <<";">> -> <<SymbolToken(";")>>
      [] OTHER -> <<>>
SymbolSources ==
    { MkSource("symbol", pre \o <<SYMBOL_LIST[k]>> \o post \o <<" ">>,
               pre \o <<SYMBOL_LIST[k]>> \o post \o <<" ">>,
               NeighbourTokens(pre) \o <<SymbolToken(SYMBOL_LIST[k])>> \o NeighbourTokens(post),
               FALSE) :
        pre \in Neighbours, k \in DOMAIN SYMBOL_LIST, post \in Neighbours }

\* integer constants at the edges of the ranges
Numerals ==
    { <<"0">>, <<"7">>, <<"3", "2", "7", "6", "7">>, <<"3", "2", "7", "6", "8">>,
      <<"6", "5", "5", "3", "5">>, <<"6", "5", "5", "3", "6">> }
NumberSources ==
    { MkSource("number", n \o end, n \o end,
               IF DecimalValue(n) <= 32767
               THEN <<MkToken("IntegerConstant", n, DecimalValue(n))>> \o NeighbourTokens(end)
               ELSE <<>>,
               DecimalValue(n) > 32767) :
        n \in Numerals, end \in {<<" ">>, <<";">>} }

\* words and symbols that are each followed by a blank or a line break, the
\* last one also by the end of the file
Code(p) == p.piece.class \in {"word", "symbol"}
Spaced(ps) ==
    /\ ps # <<>>
    /\ \A i \in DOMAIN ps : Code(ps[i]) /\ (ps[i].sep = <<>> => i = Len(ps))
LineEndSources ==
    { MkSource(IF NoTokenEndsLine(ps) THEN "spaced" ELSE "token at line end",
               PiecesText(ps), PiecesText(ps), PiecesTokens(ps), FALSE) :
        ps \in {q \in SeqsUpTo([piece : Pieces, sep : Separators], MaxPieces) : Spaced(q)} }

JackSources ==
    PieceSources \cup CommentSources \cup SymbolSources \cup NumberSources \cup LineEndSources

----------------------------------------------------------------------------
(* generate_token_list *)

TokInit ==
    /\ jackSource \in JackSources
    /\ jackLineNo = 1
    /\ file_context = [in_comment |-> FALSE]
    /\ tokens = <<>>
    /\ tokStatus = "reading"

\* one turn of `for line in file_reader.lines()`
TokLine ==
    /\ tokStatus = "reading"
    /\ jackLineNo <= Len(Lines(jackSource.text))
    /\ LET r == jack_parse_line(file_context, Lines(jackSource.text)[jackLineNo])
       IN  IF r.panic
           THEN /\ tokStatus' = "panic"
                /\ UNCHANGED <<jackLineNo, file_context, tokens>>
           ELSE /\ file_context' = [in_comment |-> r.in_comment]
                /\ tokens' = tokens \o r.token_list
                /\ jackLineNo' = jackLineNo + 1
                /\ UNCHANGED tokStatus
    /\ UNCHANGED jackSource
    /\ UNCHANGED <<asmVars, vmVars, cmpVars>>

\* the lines are read: the TokenList is returned
TokFinish ==
    /\ tokStatus = "reading"
    /\ jackLineNo > Len(Lines(jackSource.text))
    /\ tokStatus' = "done"
    /\ UNCHANGED <<jackSource, jackLineNo, file_context, tokens>>
    /\ UNCHANGED <<asmVars, vmVars, cmpVars>>

TokNext == TokLine \/ TokFinish

InitTok == TokInit /\ AsmIdle /\ VmIdle /\ CmpIdle

SpecTok == InitTok /\ [][TokNext]_vars

RECURSIVE TokenizeFrom(_, _, _)
\* the result of generate_token_list on `lines` from the i-th on
TokenizeFrom(ctx, lines, i) ==
    IF i > Len(lines) THEN [panic |-> FALSE, list |-> <<>>]
    ELSE LET r == jack_parse_line(ctx, lines[i])
         IN  IF r.panic THEN [panic |-> TRUE, list |-> <<>>]
             ELSE LET rest == TokenizeFrom([in_comment |-> r.in_comment], lines, i + 1)
                  IN  IF rest.panic THEN rest
                      ELSE [panic |-> FALSE, list |-> r.token_list \o rest.list]
generate_token_list(text) == TokenizeFrom([in_comment |-> FALSE], Lines(text), 1)

----------------------------------------------------------------------------
(* Properties of the tokenizer *)

Scanned == tokStatus # "reading"
\* the scanner ends with exactly the tokens section 4.1 asks for
ScansAsExpected == tokStatus = "done" /\ tokens = jackSource.expected

\* C15: the token list holds no token made from characters of a // or /* */
\* comment, delimiters included, and every token outside the comments, in
\* source order, wherever the comments stand (stated for sources in which no
\* token is the last thing on its line).
C15_CommentsStripped ==
    (jackSource.kind = "comments" /\ Scanned) => ScansAsExpected

\* the line breaks in the body of the block comment of a source
BreaksInComment ==
    Cardinality({i \in DOMAIN jackSource.text : jackSource.text[i] # jackSource.flat[i]})

\* C16: a block comment with 0, 1 or many line breaks in its body gives the
\* token stream of the same comment on one line; the in-comment state holds
\* from line to line up to the first */.
C16_BlockCommentLines ==
    jackSource.kind = "block comment" =>
        /\ Scanned =>
              LET one == generate_token_list(jackSource.flat)
              IN  /\ (tokStatus = "panic") = one.panic
                  /\ tokStatus = "done" => tokens = one.list
        /\ (tokStatus = "reading" /\ jackLineNo > 1) =>
              file_context.in_comment = (jackLineNo - 1 <= BreaksInComment)

C16_Witness ==
    /\ jackSource.kind = "block comment"
    /\ tokStatus = "done"
    /\ BreaksInComment = 2
    /\ Len(Lines(jackSource.text)) = 3
    /\ \E k \in DOMAIN tokens : tokens[k].value = <<"y">>
    /\ \E k \in DOMAIN tokens : tokens[k].value = <<"x">>

\* C17: each of the 19 reserved symbols outside strings and comments is its
\* own Symbol token and never part of an Identifier, Keyword or
\* IntegerConstant, whatever stands directly before or after it.
C17_SymbolsAlone ==
    (jackSource.kind = "symbol" /\ Scanned) =>
        /\ ScansAsExpected
        /\ \A k \in DOMAIN tokens :
              tokens[k].type \in {"Identifier", "Keyword", "IntegerConstant"} =>
                  \A i \in DOMAIN tokens[k].value : ~Contains(SYMBOL_LIST, tokens[k].value[i])

\* C18: a token that starts with a digit is an IntegerConstant only if its
\* value is in 0..32767: 0 and 32767 are accepted, 32768 and above make the
\* scanner fail without a token.
C18_IntegerRange ==
    (jackSource.kind = "number" /\ Scanned) =>
        IF jackSource.fails
        THEN tokStatus = "panic" /\ tokens = <<>>
        ELSE ScansAsExpected

\* the part of C18 that holds: 0..32767 are accepted, 65536 fails
C18_ExceptUpperRange ==
    (jackSource.kind = "number" /\ Scanned) =>
        /\ ~jackSource.fails => ScansAsExpected
        /\ tokStatus = "panic" => jackSource.fails

----------------------------------------------------------------------------
(* Jack parser, expressions: projects/jack_compiler/src/parser.rs           *)
(* The parse functions return Ok with the value parsed and the index of the *)
(* next token, return an Err(Error), or panic (an index past the token      *)
(* list, an unwrap of None, an explicit panic!).  Token indices are 1-based. *)

ParseOk(value, idx) == [status |-> "Ok", value |-> value, idx |-> idx]
ParseErr == [status |-> "Err", value |-> <<>>, idx |-> 0]
Panicked == [status |-> "panic", value |-> <<>>, idx |-> 0]
\* a loop that pushes forever without consuming a token
Hangs == [status |-> "hang", value |-> <<>>, idx |-> 0]

\* Token::symbol() is Some(s) with s.value = c
IsSymbol(token, c) == token.type = "Symbol" /\ token.value = <<c>>

\* Expression::new, and push on its two vectors
Expression_new == [terms |-> <<>>, ops |-> <<>>]
PushTerm(target, term) == [target EXCEPT !.terms = Append(@, term)]
PushOp(target, symbol) == [target EXCEPT !.ops = Append(@, symbol)]

\* the Term variants
IntegerTerm(token) == [kind |-> "Integer", integer |-> token.number]
StringTerm(token) == [kind |-> "String", string |-> token.value]
KeywordTerm(token) == [kind |-> "Keyword", keyword |-> Str(token.value)]
VarNameTerm(token) == [kind |-> "VarName", name |-> Str(token.value)]
ArrayVarTerm(token, expression) ==
    [kind |-> "ArrayVar", name |-> Str(token.value), expression |-> expression]
ExpressionInParenthesisTerm(expression) ==
    [kind |-> "ExpresssionInParenthesis", expression |-> expression]
UnaryOpTerm(symbol, term) == [kind |-> "UnaryOp", op |-> symbol, term |-> term]
SubroutineCallTerm(call) == [kind |-> "Subroutine", call |-> call]

\* the CallType variants; `parameters` is ExpressionList.list
FunctionCall(name, parameters) ==
    [type |-> "Function", name |-> name, parameters |-> parameters]
MethodCall(source_name, method_name, parameters) ==
    [type |-> "Method", source_name |-> source_name, method_name |-> method_name,
     parameters |-> parameters]

\* the operator symbols parse_expression pushes on Expression.ops
BinaryOpSymbols == {"+", "*", "/", "&", "|", "<", ">", "="}
\* the symbols at which parse_expression leaves its loop
ExpressionEnds == {")", "]", ";", ","}

\* the value of an Ok result replaced by F of it; other results are passed on (`?`)
MapOk(r, F(_)) == IF r.status = "Ok" THEN ParseOk(F(r.value), r.idx) ELSE r

\* the check, after an expression or a list r, that the block is closed by the
\* symbol `close`: tokens.list[idx].symbol().unwrap(), then the comparison
Closed(toks, r, close) ==
    IF r.status # "Ok" THEN r
    ELSE IF r.idx > Len(toks) \/ toks[r.idx].type # "Symbol" THEN Panicked
    ELSE IF ~IsSymbol(toks[r.idx], close) THEN ParseErr
    ELSE ParseOk(r.value, r.idx + 1)

\* the method name and the `(` that follow `source .` at token_index + 1:
\* identifier().unwrap(), symbol().unwrap(), then the comparison
MethodHead(toks, token_index) ==
    IF token_index + 3 > Len(toks) THEN Panicked
    ELSE IF toks[token_index + 2].type # "Identifier" THEN Panicked
    ELSE IF toks[token_index + 3].type # "Symbol" THEN Panicked
    ELSE IF ~IsSymbol(toks[token_index + 3], "(") THEN ParseErr
    ELSE ParseOk(Str(toks[token_index + 2].value), token_index + 4)

RECURSIVE parse_term(_, _)
RECURSIVE parse_expression(_, _, _)
RECURSIVE parse_expression_list(_, _, _)

\* parse_term, Token::Identifier followed by `.`: a subroutineCall (methodCall)
MethodCallTerm(toks, token_index, head) ==
    IF head.status # "Ok" THEN head
    ELSE MapOk(Closed(toks, parse_expression_list(<<>>, toks, head.idx), ")"),
               LAMBDA l : SubroutineCallTerm(
                              MethodCall(Str(toks[token_index].value), head.value, l)))

\* parse_term: the term that starts at token_index
parse_term(toks, token_index) ==
    IF token_index > Len(toks) THEN Panicked
    ELSE
    LET t == toks[token_index]
    IN
    CASE t.type = "IntegerConstant" -> ParseOk(IntegerTerm(t), token_index + 1)
      [] t.type = "StringConstant" -> ParseOk(StringTerm(t), token_index + 1)
      [] t.type = "Keyword" ->
            IF Str(t.value) \in {"this", "null", "true", "false"}
            THEN ParseOk(KeywordTerm(t), token_index + 1)
            ELSE ParseErr
      [] t.type = "Identifier" ->
            IF token_index + 1 > Len(toks) THEN Panicked
            ELSE IF IsSymbol(toks[token_index + 1], "[")
            THEN MapOk(Closed(toks,
                              parse_expression(Expression_new, toks, token_index + 2),
                              "]"),
                       LAMBDA e : ArrayVarTerm(t, e))
            ELSE IF IsSymbol(toks[token_index + 1], "(")
            THEN Panicked
            ELSE IF IsSymbol(toks[token_index + 1], ".")
            THEN MethodCallTerm(toks, token_index, MethodHead(toks, token_index))
            ELSE ParseOk(VarNameTerm(t), token_index + 1)
      [] t.type = "Symbol" ->
            IF IsSymbol(t, "(")
            THEN MapOk(Closed(toks,
                              parse_expression(Expression_new, toks, token_index + 1),
                              ")"),
                       LAMBDA e : ExpressionInParenthesisTerm(e))
            ELSE IF IsSymbol(t, "-") \/ IsSymbol(t, "~")
            THEN MapOk(parse_term(toks, token_index + 1),
                       LAMBDA term : UnaryOpTerm(t.value[1], term))
            ELSE ParseErr

\* parse_expression: the term r is pushed on `target` and the loop goes on
TermParsed(target, toks, r) ==
    IF r.status # "Ok" THEN r
    ELSE parse_expression(PushTerm(target, r.value), toks, r.idx)

\* parse_expression: the loop, with `target` as filled so far
parse_expression(target, toks, current_idx) ==
    IF current_idx > Len(toks) THEN Panicked
    ELSE
    LET t == toks[current_idx]
        \* `-` with no term before it, and `~`: a unary op and its term
        unary == IsSymbol(t, "~") \/ (IsSymbol(t, "-") /\ target.terms = <<>>)
        \* `-` with a term before it, and the other operators: a normal op
        normal == \/ IsSymbol(t, "-") /\ target.terms # <<>>
                  \/ t.type = "Symbol" /\ t.value[1] \in BinaryOpSymbols
    IN  IF unary
        THEN TermParsed(target, toks,
                        MapOk(parse_term(toks, current_idx + 1),
                              LAMBDA term : UnaryOpTerm(t.value[1], term)))
        ELSE IF normal
        THEN parse_expression(PushOp(target, t.value[1]), toks, current_idx + 1)
        ELSE IF t.type = "Symbol" /\ t.value[1] \in ExpressionEnds
        THEN ParseOk(target, current_idx)
        ELSE TermParsed(target, toks, parse_term(toks, current_idx))

\* parse_expression_list: the expression e is pushed on the list and the loop
\* goes on; an expression that consumed no token is pushed again and again
ExpressionParsed(list, toks, current_idx, e) ==
    IF e.status # "Ok" THEN e
    ELSE IF e.idx = current_idx THEN Hangs
    ELSE parse_expression_list(Append(list, e.value), toks, e.idx)

\* parse_expression_list: the loop, with ExpressionList.list as filled so far
parse_expression_list(list, toks, current_idx) ==
    IF current_idx > Len(toks) THEN Panicked
    ELSE IF IsSymbol(toks[current_idx], ")")
    THEN ParseOk(list, current_idx)
    ELSE IF IsSymbol(toks[current_idx], ",")
    THEN parse_expression_list(list, toks, current_idx + 1)
    ELSE ExpressionParsed(list, toks, current_idx,
                          parse_expression(Expression_new, toks, current_idx))

\* parse_subroutine_call
parse_subroutine_call(toks, token_index) ==
    IF token_index + 1 > Len(toks) THEN Panicked
    ELSE IF toks[token_index].type # "Identifier" THEN Panicked
    ELSE IF toks[token_index + 1].type # "Symbol" THEN Panicked
    ELSE IF IsSymbol(toks[token_index + 1], "(")
    THEN MapOk(Closed(toks, parse_expression_list(<<>>, toks, token_index + 2), ")"),
               LAMBDA l : FunctionCall(Str(toks[token_index].value), l))
    ELSE IF IsSymbol(toks[token_index + 1], ".")
    THEN MapOk(MethodCallTerm(toks, token_index, MethodHead(toks, token_index)),
               LAMBDA term : term.call)
    ELSE ParseErr

\* the check that a statement ends with `;`
Ended(toks, r) ==
    IF r.status # "Ok" THEN r
    ELSE IF r.idx > Len(toks) \/ toks[r.idx].type # "Symbol" THEN Panicked
    ELSE IF ~IsSymbol(toks[r.idx], ";") THEN ParseErr
    ELSE ParseOk(r.value, r.idx + 1)

\* parse_do_statement: token_index is that of the token after `do`
parse_do_statement(toks, token_index) ==
    MapOk(Ended(toks, parse_subroutine_call(toks, token_index)),
          LAMBDA call : [kind |-> "Do", call |-> call])

----------------------------------------------------------------------------
(* Jack code generator: the compile functions of parser.rs                  *)
(* `output` is the sequence of the lines pushed on it.  A compile function  *)
(* gives [panic, out]: whether it panicked and the lines it pushed; the     *)
(* functions that take the CompileState mutably give the state they leave.  *)

CompileOk(out) == [panic |-> FALSE, out |-> out]
CompilePanic == [panic |-> TRUE, out |-> <<>>]
StateOk(out, state) == [panic |-> FALSE, out |-> out, state |-> state]
StatePanic(state) == [panic |-> TRUE, out |-> <<>>, state |-> state]

\* ReturnType; Class carries the class name
ReturnType(type) == [type |-> type, class |-> ""]
ReturnClass(class) == [type |-> "Class", class |-> class]

\* init_os_functions
OsFunctions ==
    LET str == ReturnClass("String")
        arr == ReturnClass("Array")
    IN  ("Math.multiply" :> ReturnType("Int")) @@
        ("Math.divide" :> ReturnType("Int")) @@
        ("Math.min" :> ReturnType("Int")) @@
        ("Math.max" :> ReturnType("Int")) @@
        ("Math.sqrt" :> ReturnType("Int")) @@
        ("String.new" :> str) @@
        ("String.dispose" :> ReturnType("Int")) @@
        ("String.length" :> ReturnType("Int")) @@
        ("String.charAt" :> ReturnType("Char")) @@
        ("String.setCharAt" :> ReturnType("Void")) @@
        ("String.appendChar" :> str) @@
        ("String.eraseLastChar" :> ReturnType("Void")) @@
        ("String.intValue" :> ReturnType("Int")) @@
        ("String.setInt" :> ReturnType("Void")) @@
        ("String.backSpace" :> ReturnType("Char")) @@
        ("String.doubleQuote" :> ReturnType("Char")) @@
        ("String.newLine" :> ReturnType("Char")) @@
        ("Array.new" :> arr) @@
        ("Array.dispose" :> ReturnType("Void")) @@
        ("Output.moveCursor" :> ReturnType("Void")) @@
        ("Output.printChar" :> ReturnType("Void")) @@
        ("Output.printString" :> ReturnType("Void")) @@
        ("Output.printInt" :> ReturnType("Void")) @@
        ("Output.println" :> ReturnType("Void")) @@
        ("Output.backSpace" :> ReturnType("Void")) @@
        ("Screen.clearScreen" :> ReturnType("Void")) @@
        ("Screen.setColor" :> ReturnType("Void")) @@
        ("Screen.drawPixel" :> ReturnType("Void")) @@
        ("Screen.drawLine" :> ReturnType("Void")) @@
        ("Screen.drawRectangle" :> ReturnType("Void")) @@
        ("Screen.drawCircle" :> ReturnType("Void")) @@
        ("Keyboard.keyPressed" :> ReturnType("Char")) @@
        ("Keyboard.readChar" :> ReturnType("Char")) @@
        ("Keyboard.readLine" :> str) @@
        ("Keyboard.readInt" :> ReturnType("Int")) @@
        ("Memory.peek" :> ReturnType("Int")) @@
        ("Memory.poke" :> ReturnType("Void")) @@
        ("Memory.alloc" :> arr) @@
        ("Memory.dealloc" :> ReturnType("Void")) @@
        ("Sys.halt" :> ReturnType("Void")) @@
        ("Sys.error" :> ReturnType("Void")) @@
        ("Sys.wait" :> ReturnType("Void"))

\* HashMap::new and HashMap::insert: an entry of the same key is replaced
HashMap_new == [key \in {} |-> <<>>]
HashMap_insert(table, key, value) ==
    [k \in DOMAIN table \cup {key} |-> IF k = key THEN value ELSE table[k]]

\* SymbolType; Class carries the class name
SymbolType(type) == [type |-> type, class |-> ""]
SymbolClass(class) == [type |-> "Class", class |-> class]

\* SymbolTableEntry::new
SymbolTableEntry_new(category, symbol_type, index) ==
    [category |-> category, symbol_type |-> symbol_type, index |-> index]

\* ClassSymbolTable::new
ClassSymbolTable_new == [table |-> HashMap_new, static_count |-> 0, field_count |-> 0]

\* ClassSymbolTable::add_entry; the parser passes no other category
ClassSymbolTable_add_entry(self, name, category, symbol_type) ==
    CASE category = "Static" ->
            [self EXCEPT
                !.table = HashMap_insert(@, name,
                              SymbolTableEntry_new(category, symbol_type, self.static_count)),
                !.static_count = @ + 1]
      [] category = "Field" ->
            [self EXCEPT
                !.table = HashMap_insert(@, name,
                              SymbolTableEntry_new(category, symbol_type, self.field_count)),
                !.field_count = @ + 1]

\* MethodSymbolTable::new
MethodSymbolTable_new == [table |-> HashMap_new, argument_count |-> 0, var_count |-> 0]

\* MethodSymbolTable::add_entry; the parser passes no other category
MethodSymbolTable_add_entry(self, name, category, symbol_type) ==
    CASE category = "Argument" ->
            [self EXCEPT
                !.table = HashMap_insert(@, name,
                              SymbolTableEntry_new(category, symbol_type, self.argument_count)),
                !.argument_count = @ + 1]
      [] category = "Var" ->
            [self EXCEPT
                !.table = HashMap_insert(@, name,
                              SymbolTableEntry_new(category, symbol_type, self.var_count)),
                !.var_count = @ + 1]

\* ParseInfo::new
ParseInfo_new ==
    [class_symbol_table |-> ClassSymbolTable_new,
     symbol_table_per_method |-> HashMap_new,
     return_type |-> OsFunctions]

\* a FunctionScopeState whose counters do not start again at 0
FunctionScopeState_new_kept(subroutine_name) ==
    [subroutine_name |-> subroutine_name, while_counter |-> 1, if_counter |-> 1]

\* FunctionScopeState::new
FunctionScopeState_new(subroutine_name) ==
    [subroutine_name |-> subroutine_name, while_counter |-> 0, if_counter |-> 0]

\* CompileState::new
CompileState_new(class_name) ==
    [class_name |-> class_name, func_state |-> FunctionScopeState_new("")]

\* CompileState::full_method_name
full_method_name(state) == state.class_name \o "." \o state.func_state.subroutine_name

\* format!("{} {} {}", a, b, n) with a number n
Words(a, b, n) == a \o " " \o b \o " " \o ToString(n)

\* Op::compile
Op_compile(symbol) ==
    CASE symbol = "+" -> CompileOk(<<"add">>)
      [] symbol = "-" -> CompileOk(<<"sub">>)
      [] symbol = "=" -> CompileOk(<<"eq">>)
      [] symbol = ">" -> CompileOk(<<"gt">>)
      [] symbol = "<" -> CompileOk(<<"lt">>)
      [] symbol = "&" -> CompileOk(<<"and">>)
      [] symbol = "|" -> CompileOk(<<"or">>)
      [] symbol = "~" -> CompileOk(<<"not">>)
      [] symbol = "*" -> CompileOk(<<"call Math.multiply 2">>)
      [] symbol = "/" -> CompileOk(<<"call Math.divide 2">>)
      [] OTHER -> CompilePanic

\* IntegerTerm::compile
IntegerTerm_compile(term) == CompileOk(<<Words("push", "constant", term.integer)>>)

\* StringTerm::compile
StringTerm_compile(term) == CompileOk(<<>>)

\* KeywordTerm::compile
KeywordTerm_compile(term) ==
    CASE term.keyword = "true" -> CompileOk(<<"push constant 0", "not">>)
      [] term.keyword = "false" -> CompileOk(<<"push constant 0">>)
      [] OTHER -> CompilePanic

\* VarNameTerm::compile; a symbol table maps a name to
\* SymbolTableEntry {category, symbol_type, index}
VarNameTerm_compile(term, info, state) ==
    IF full_method_name(state) \in DOMAIN info.symbol_table_per_method
    THEN LET table == info.symbol_table_per_method[full_method_name(state)].table
         IN  IF term.name \notin DOMAIN table THEN CompilePanic
             ELSE LET entry == table[term.name]
                  IN  IF entry.symbol_type.type = "Class" THEN CompilePanic
                      ELSE CASE entry.category = "Argument" ->
                                    CompileOk(<<Words("push", "argument", entry.index)>>)
                             [] entry.category = "Var" ->
                                    CompileOk(<<Words("push", "local", entry.index)>>)
                             [] OTHER -> CompilePanic
    ELSE CompilePanic

\* the lines of a, then of b (and of c), unless one of them panicked: the
\* calls are made in this order and each `?` or panic ends the function
Join(a, b) == IF a.panic \/ b.panic THEN CompilePanic ELSE CompileOk(a.out \o b.out)
Join3(a, b, c) == Join(Join(a, b), c)

RECURSIVE Term_compile(_, _, _)
RECURSIVE ExpressionFrom(_, _, _, _)

\* Expression::compile, from the i-th term on: terms[0], then for i in
\* 1..term_len the term i and the operator i - 1
ExpressionFrom(expression, i, info, state) ==
    Join3(Term_compile(expression.terms[i], info, state),
          IF i > 1 THEN Op_compile(expression.ops[i - 1]) ELSE CompileOk(<<>>),
          IF i < Len(expression.terms)
          THEN ExpressionFrom(expression, i + 1, info, state)
          ELSE CompileOk(<<>>))

\* Expression::compile; the two asserts panic
Expression_compile(expression, info, state) ==
    IF ~(Len(expression.terms) > 0) THEN CompilePanic
    ELSE IF Len(expression.terms) - 1 # Len(expression.ops) THEN CompilePanic
    ELSE ExpressionFrom(expression, 1, info, state)

\* UnaryOpTerm::compile
UnaryOpTerm_compile(term, info, state) ==
    Join(Term_compile(term.term, info, state),
         CASE term.op = "-" -> CompileOk(<<"neg">>)
           [] term.op = "~" -> CompileOk(<<"not">>)
           [] OTHER -> CompilePanic)

RECURSIVE ExpressionList_compile(_, _, _)
\* ExpressionList::compile
ExpressionList_compile(list, info, state) ==
    IF list = <<>> THEN CompileOk(<<>>)
    ELSE Join(Expression_compile(Head(list), info, state),
              ExpressionList_compile(Tail(list), info, state))

\* FunctionCall::compile
FunctionCall_compile(call, info, state) ==
    Join(ExpressionList_compile(call.parameters, info, state),
         CompileOk(<<Words("call", call.name, Len(call.parameters))>>))

\* MethodCall::compile, after the parameters: the call line, and `pop temp 0`
\* when the return type registered for the callee is void
MethodCallLines(caller, call, info) ==
    IF caller \notin DOMAIN info.return_type THEN CompilePanic
    ELSE CompileOk(<<Words("call", caller, Len(call.parameters))>> \o
                   IF info.return_type[caller].type = "Void"
                   THEN <<"pop temp 0">> ELSE <<>>)

\* MethodCall::compile
MethodCall_compile(call, info, state) ==
    Join(ExpressionList_compile(call.parameters, info, state),
         MethodCallLines(call.source_name \o "." \o call.method_name, call, info))

\* CallType::compile
CallType_compile(call, info, state) ==
    IF call.type = "Function" THEN FunctionCall_compile(call, info, state)
    ELSE MethodCall_compile(call, info, state)

\* Term::compile
Term_compile(term, info, state) ==
    CASE term.kind = "Integer" -> IntegerTerm_compile(term)
      [] term.kind = "String" -> StringTerm_compile(term)
      [] term.kind = "ExpresssionInParenthesis" ->
            Expression_compile(term.expression, info, state)
      [] term.kind = "UnaryOp" -> UnaryOpTerm_compile(term, info, state)
      [] term.kind = "Subroutine" -> CallType_compile(term.call, info, state)
      [] term.kind = "VarName" -> VarNameTerm_compile(term, info, state)
      [] term.kind = "Keyword" -> KeywordTerm_compile(term)
      [] OTHER -> CompilePanic

\* the Statement variants; `array` is LetStatement.array.is_some(), else_block
\* is <<>> for None and <<statements>> for Some
LetStatement(var_name, array, right_hand_side) ==
    [kind |-> "Let", var_name |-> var_name, array |-> array,
     right_hand_side |-> right_hand_side]
IfStatement(condition, statements, else_block) ==
    [kind |-> "If", condition |-> condition, statements |-> statements,
     else_block |-> else_block]
WhileStatement(expression, statements) ==
    [kind |-> "While", expression |-> expression, statements |-> statements]
DoStatement(call) == [kind |-> "Do", call |-> call]
\* ReturnStatement with expression None, and with Some(expression)
ReturnStatement == [kind |-> "Return", expression |-> <<>>]
ReturnStatementOf(expression) == [kind |-> "Return", expression |-> <<expression>>]

\* LetStatement::compile, after the right hand side: the pop to the variable
LetStatementPop(s, info, state) ==
    IF full_method_name(state) \notin DOMAIN info.symbol_table_per_method
    THEN CompilePanic
    ELSE LET table == info.symbol_table_per_method[full_method_name(state)].table
         IN  IF s.var_name \notin DOMAIN table THEN CompilePanic
             ELSE IF table[s.var_name].symbol_type.type = "Class" THEN CompilePanic
             ELSE CompileOk(<<Words("pop", "local", table[s.var_name].index)>>)

\* LetStatement::compile
LetStatement_compile(s, info, state) ==
    IF s.array THEN CompilePanic
    ELSE Join(Expression_compile(s.right_hand_side, info, state),
              LetStatementPop(s, info, state))

\* DoStatement::compile
DoStatement_compile(s, info, state) == CallType_compile(s.call, info, state)

\* ReturnStatement::compile
ReturnStatement_compile(return_type) ==
    IF return_type.type = "Void" THEN CompileOk(<<"push constant 0", "return">>)
    ELSE CompilePanic

\* format!("IF_TRUE{}", counter) and the like
Label(prefix, n) == prefix \o ToString(n)

\* the result of a function that leaves the CompileState as it found it
Kept(r, state) == IF r.panic THEN StatePanic(state) ELSE StateOk(r.out, state)

\* the lines of a, then of b, with the state b leaves
Then(a, b) ==
    IF a.panic THEN a
    ELSE IF b.panic THEN b
    ELSE StateOk(a.out \o b.out, b.state)

RECURSIVE Statement_compile(_, _, _)
RECURSIVE StatementList_compile(_, _, _)

\* StatementList::compile after the first statement, whose result is s
StatementsAfter(list, info, s) ==
    IF s.panic THEN s
    ELSE Then(s, StatementList_compile(Tail(list), info, s.state))

\* StatementList::compile
StatementList_compile(list, info, state) ==
    IF list = <<>> THEN StateOk(<<>>, state)
    ELSE StatementsAfter(list, info, Statement_compile(Head(list), info, state))

\* the statements of the blocks of a statement, one block after the other,
\* each block in the state the one before leaves: [panic, out, state] with
\* `out` the sequence of the blocks' lines
RECURSIVE Blocks_compile(_, _, _)
BlocksAfter(blocks, info, b) ==
    IF b.panic THEN b
    ELSE LET rest == Blocks_compile(Tail(blocks), info, b.state)
         IN  IF rest.panic THEN rest
             ELSE StateOk(<<b.out>> \o rest.out, rest.state)
Blocks_compile(blocks, info, state) ==
    IF blocks = <<>> THEN StateOk(<<>>, state)
    ELSE BlocksAfter(blocks, info, StatementList_compile(Head(blocks), info, state))

\* IfStatement::compile, given the lines of the condition and of the blocks
IfLines(label_no, condition, blocks) ==
    LET cond_true_label == Label("IF_TRUE", label_no)
        cond_false_label == Label("IF_FALSE", label_no)
    IN  IF condition.panic \/ blocks.panic THEN StatePanic(blocks.state)
        ELSE StateOk(condition.out \o
                     <<"not", "if-goto" \o " " \o cond_false_label>> \o
                     blocks.out[1] \o
                     <<"goto" \o " " \o cond_true_label,
                       "label" \o " " \o cond_false_label>> \o
                     (IF Len(blocks.out) > 1 THEN blocks.out[2] ELSE <<>>) \o
                     <<"label" \o " " \o cond_true_label>>,
                     blocks.state)

\* IfStatement::compile: the counter is read and incremented, then the
\* condition, the statements and the else block are compiled
IfStatement_compile(s, info, state) ==
    IfLines(state.func_state.if_counter,
            Expression_compile(s.condition, info, state),
            Blocks_compile(<<s.statements>> \o s.else_block, info,
                           [state EXCEPT !.func_state.if_counter = @ + 1]))

\* WhileStatement::compile, given the lines of the expression and of the body
WhileLines(label_no, expression, blocks) ==
    LET start_label == Label("WHILE_EXP", label_no)
        end_label == Label("WHILE_END", label_no)
    IN  IF expression.panic \/ blocks.panic THEN StatePanic(blocks.state)
        ELSE StateOk(<<"label" \o " " \o start_label>> \o expression.out \o
                     <<"not", "if-goto" \o " " \o end_label>> \o
                     blocks.out[1] \o
                     <<"goto" \o " " \o start_label, "label" \o " " \o end_label>>,
                     blocks.state)

\* WhileStatement::compile
WhileStatement_compile(s, info, state) ==
    WhileLines(state.func_state.while_counter,
               Expression_compile(s.expression, info, state),
               Blocks_compile(<<s.statements>>, info,
                              [state EXCEPT !.func_state.while_counter = @ + 1]))

\* Statement::compile
Statement_compile(s, info, state) ==
    CASE s.kind = "Let" -> Kept(LetStatement_compile(s, info, state), state)
      [] s.kind = "If" -> IfStatement_compile(s, info, state)
      [] s.kind = "While" -> WhileStatement_compile(s, info, state)
      [] s.kind = "Do" -> Kept(DoStatement_compile(s, info, state), state)
      [] s.kind = "Return" ->
            IF full_method_name(state) \notin DOMAIN info.return_type
            THEN StatePanic(state)
            ELSE Kept(ReturnStatement_compile(info.return_type[full_method_name(state)]),
                      state)

\* SubroutineDec {name, variable_sum, statements}: variable_sum is
\* body.variable_sum(), statements is body.statements.list
SubroutineDec(name, variable_sum, statements) ==
    [name |-> name, variable_sum |-> variable_sum, statements |-> statements]

\* a function line that gives the number of `var` declarations as 0
FunctionLine_nolocals(state, sub, body) ==
    IF body.panic THEN body
    ELSE StateOk(<<"function " \o state.class_name \o "." \o sub.name \o " " \o
                   ToString(0)>> \o body.out,
                 body.state)

\* SubroutineDec::compile, the function line before the lines of the body
FunctionLine(state, sub, body) ==
    IF body.panic THEN body
    ELSE StateOk(<<"function " \o state.class_name \o "." \o sub.name \o " " \o
                   ToString(sub.variable_sum)>> \o body.out,
                 body.state)

\* SubroutineDec::compile
SubroutineDec_compile(sub, info, state) ==
    FunctionLine(state, sub,
                 StatementList_compile(
                     sub.statements, info,
                     [state EXCEPT !.func_state = FunctionScopeState_new(sub.name)]))

----------------------------------------------------------------------------
(* Jack parser, statements *)

\* the token at idx is the keyword `word`
IsKeyword(toks, idx, word) ==
    idx <= Len(toks) /\ toks[idx].type = "Keyword" /\ Str(toks[idx].value) = word

\* parse_expression(..).unwrap(): an Err is a panic
Unwrapped(r) == IF r.status = "Err" THEN Panicked ELSE r

\* parse_expression of a new Expression at the index r leaves
ExpressionIn(toks, r) ==
    IF r.status # "Ok" THEN r ELSE parse_expression(Expression_new, toks, r.idx)

\* `( expression )` from token_index on: the condition of `if` and `while`
Condition(toks, token_index) ==
    Closed(toks, ExpressionIn(toks, Closed(toks, ParseOk(<<>>, token_index), "(")), ")")

\* parse_let_statement: `target` is what the loop has filled so far
RECURSIVE LetLoop(_, _, _)

\* parse_let_statement, after `[ expression ]` or after `= expression`
LetArray(target, toks, r) ==
    IF r.status # "Ok" THEN r
    ELSE LetLoop([target EXCEPT !.array = TRUE], toks, r.idx)
LetAssign(target, toks, r) ==
    IF r.status # "Ok" THEN r
    ELSE LetLoop([target EXCEPT !.right_hand_side = r.value], toks, r.idx)

LetLoop(target, toks, current_idx) ==
    IF current_idx > Len(toks) \/ toks[current_idx].type # "Symbol" THEN Panicked
    ELSE IF IsSymbol(toks[current_idx], ";") THEN ParseOk(target, current_idx + 1)
    ELSE IF IsSymbol(toks[current_idx], "[")
    THEN LetArray(target, toks,
                  Closed(toks, parse_expression(Expression_new, toks, current_idx + 1), "]"))
    ELSE IF IsSymbol(toks[current_idx], "=")
    THEN LetAssign(target, toks,
                   parse_expression(target.right_hand_side, toks, current_idx + 1))
    ELSE ParseErr

\* parse_let_statement: token_index is that of the token after `let`
parse_let_statement(toks, token_index) ==
    IF token_index > Len(toks) \/ toks[token_index].type # "Identifier" THEN Panicked
    ELSE LetLoop(LetStatement(Str(toks[token_index].value), FALSE, Expression_new),
                 toks, token_index + 1)

\* parse_return_statement: the expression, then the `;`
ReturnExpression(toks, r) ==
    IF r.status # "Ok" THEN r
    ELSE IF r.idx > Len(toks) \/ toks[r.idx].type # "Symbol" THEN Panicked
    ELSE IF ~IsSymbol(toks[r.idx], ";") THEN ParseErr
    ELSE ParseOk(ReturnStatementOf(r.value), r.idx + 1)

\* parse_return_statement: token_index is that of the token after `return`
parse_return_statement(toks, token_index) ==
    IF token_index > Len(toks) THEN Panicked
    ELSE IF IsSymbol(toks[token_index], ";") THEN ParseOk(ReturnStatement, token_index + 1)
    ELSE ReturnExpression(toks,
                          Unwrapped(parse_expression(Expression_new, toks, token_index)))

RECURSIVE parse_statements(_, _, _)

\* parse_statements of a new StatementList at the index r leaves
StatementsIn(toks, r) ==
    IF r.status # "Ok" THEN r ELSE parse_statements(<<>>, toks, r.idx)

\* `{ statements }` at the index r leaves: the body of `if`, `else`, `while`
BlockOf(toks, r) == Closed(toks, StatementsIn(toks, Closed(toks, r, "{")), "}")

\* parse_while_statement, with the condition c and the body b
WhileParsed(c, b) ==
    IF c.status # "Ok" THEN c
    ELSE MapOk(b, LAMBDA statements : WhileStatement(c.value, statements))

\* parse_while_statement, after the condition
WhileBlock(toks, c) == WhileParsed(c, BlockOf(toks, c))

\* parse_while_statement: token_index is that of the token after `while`
parse_while_statement(toks, token_index) == WhileBlock(toks, Condition(toks, token_index))

\* parse_else_block: token_index is that of the token after `else`
parse_else_block(toks, token_index) == BlockOf(toks, ParseOk(<<>>, token_index))

\* parse_if_statement, after the body b: the else block, if `else` follows
ElseOf(toks, b) ==
    IF b.status # "Ok" THEN b
    ELSE IF b.idx > Len(toks) THEN Panicked
    ELSE IF IsKeyword(toks, b.idx, "else")
    THEN MapOk(parse_else_block(toks, b.idx + 1), LAMBDA statements : <<statements>>)
    ELSE ParseOk(<<>>, b.idx)

\* parse_if_statement, with the condition c and the body b
IfParsed(toks, c, b) ==
    IF c.status # "Ok" THEN c
    ELSE IF b.status # "Ok" THEN b
    ELSE MapOk(ElseOf(toks, b), LAMBDA else_block : IfStatement(c.value, b.value, else_block))

\* parse_if_statement, after the condition
IfBlock(toks, c) == IfParsed(toks, c, BlockOf(toks, c))

\* parse_if_statement: token_index is that of the token after `if`
parse_if_statement(toks, token_index) == IfBlock(toks, Condition(toks, token_index))

\* the keywords that start a statement
StatementKeywords == {"let", "if", "while", "do", "return"}

\* parse_statements: the statement whose keyword is at current_idx
KeywordStatement(toks, current_idx) ==
    CASE IsKeyword(toks, current_idx, "let") -> parse_let_statement(toks, current_idx + 1)
      [] IsKeyword(toks, current_idx, "if") -> parse_if_statement(toks, current_idx + 1)
      [] IsKeyword(toks, current_idx, "while") -> parse_while_statement(toks, current_idx + 1)
      [] IsKeyword(toks, current_idx, "do") -> parse_do_statement(toks, current_idx + 1)
      [] IsKeyword(toks, current_idx, "return") ->
            parse_return_statement(toks, current_idx + 1)

\* parse_statements: the statement r is pushed on the list and the loop goes on
StatementParsed(list, toks, r) ==
    IF r.status # "Ok" THEN r
    ELSE parse_statements(Append(list, r.value), toks, r.idx)

\* parse_statements: the loop, with StatementList.list as filled so far; it
\* ends at a `}`, which it leaves to the caller
parse_statements(list, toks, current_idx) ==
    IF current_idx > Len(toks) THEN Panicked
    ELSE IF toks[current_idx].type = "Keyword"
    THEN IF Str(toks[current_idx].value) \in StatementKeywords
         THEN StatementParsed(list, toks, KeywordStatement(toks, current_idx))
         ELSE ParseErr
    ELSE IF IsSymbol(toks[current_idx], "}") THEN ParseOk(list, current_idx)
    ELSE ParseErr

----------------------------------------------------------------------------
(* Jack parser, declarations.  The functions that fill the ParseInfo give   *)
(* it in the value of their result.                                          *)

\* parse_type: Ok(token) for int, char, boolean and a class name
parse_type(token) ==
    \/ token.type = "Keyword" /\ Str(token.value) \in {"int", "char", "boolean"}
    \/ token.type = "Identifier"

\* var_type_to_symbol_type, of a token parse_type accepted
var_type_to_symbol_type(var_type) ==
    IF var_type.type = "Identifier" THEN SymbolClass(Str(var_type.value))
    ELSE CASE Str(var_type.value) = "boolean" -> SymbolType("Boolean")
           [] Str(var_type.value) = "int" -> SymbolType("Int")
           [] Str(var_type.value) = "char" -> SymbolType("Char")

\* keyword_to_category
keyword_to_category(k) ==
    CASE k = "static" -> "Static"
      [] k = "field" -> "Field"

\* token_to_return_type and keyword_to_return_type, of the tokens
\* parse_subroutine_dec accepted
token_to_return_type(t) ==
    IF t.type = "Identifier" THEN ReturnClass(Str(t.value))
    ELSE CASE Str(t.value) = "void" -> ReturnType("Void")
           [] Str(t.value) = "boolean" -> ReturnType("Boolean")
           [] Str(t.value) = "int" -> ReturnType("Int")
           [] Str(t.value) = "char" -> ReturnType("Char")

\* VarDec {var_type, names}
VarDec(var_type, names) == [var_type |-> var_type, names |-> names]

\* parse_var_dec: the loop after the first name
RECURSIVE VarDecLoop(_, _, _)
VarDecLoop(target, toks, current_idx) ==
    IF current_idx > Len(toks) THEN Panicked
    ELSE IF IsSymbol(toks[current_idx], ";") THEN ParseOk(target, current_idx + 1)
    ELSE IF IsSymbol(toks[current_idx], ",")
    THEN IF current_idx + 1 > Len(toks) \/ toks[current_idx + 1].type # "Identifier"
         THEN Panicked
         ELSE VarDecLoop([target EXCEPT !.names = Append(@, Str(toks[current_idx + 1].value))],
                         toks, current_idx + 2)
    ELSE ParseErr

\* parse_var_dec: token_index is that of the token after `var`
parse_var_dec(toks, token_index) ==
    IF token_index > Len(toks) THEN Panicked
    ELSE IF ~parse_type(toks[token_index]) THEN ParseErr
    ELSE IF token_index + 1 > Len(toks) \/ toks[token_index + 1].type # "Identifier"
    THEN Panicked
    ELSE VarDecLoop(VarDec(toks[token_index], <<Str(toks[token_index + 1].value)>>),
                    toks, token_index + 2)

\* SubroutineBody::variable_sum
RECURSIVE variable_sum(_)
variable_sum(variables) ==
    IF variables = <<>> THEN 0
    ELSE Len(Head(variables).names) + variable_sum(Tail(variables))

\* `for v in &vd.names { table.add_entry(v, Var, type) }`
RECURSIVE AddVars(_, _, _)
AddVars(table, names, symbol_type) ==
    IF names = <<>> THEN table
    ELSE AddVars(MethodSymbolTable_add_entry(table, Head(names), "Var", symbol_type),
                 Tail(names), symbol_type)

\* SubroutineBody {variables, statements} and the symbol table of the subroutine
SubroutineBody(table, variables, statements) ==
    [table |-> table, variables |-> variables, statements |-> statements]

RECURSIVE BodyLoop(_, _, _)

\* parse_subroutine_body, after a varDec and after statements
VarDecParsed(target, toks, r) ==
    IF r.status # "Ok" THEN r
    ELSE BodyLoop([target EXCEPT
                      !.table = AddVars(@, r.value.names,
                                        var_type_to_symbol_type(r.value.var_type)),
                      !.variables = Append(@, r.value)],
                  toks, r.idx)
BodyStatements(target, toks, r) ==
    IF r.status # "Ok" THEN r
    ELSE BodyLoop([target EXCEPT !.statements = r.value], toks, r.idx)

\* parse_subroutine_body: the loop after `{`
BodyLoop(target, toks, current_idx) ==
    IF current_idx > Len(toks) THEN Panicked
    ELSE IF IsSymbol(toks[current_idx], "}") THEN ParseOk(target, current_idx + 1)
    ELSE IF IsKeyword(toks, current_idx, "var")
    THEN VarDecParsed(target, toks, parse_var_dec(toks, current_idx + 1))
    ELSE IF toks[current_idx].type = "Keyword"
            /\ Str(toks[current_idx].value) \in StatementKeywords
    THEN BodyStatements(target, toks, parse_statements(target.statements, toks, current_idx))
    ELSE ParseErr

\* the loop of a body that opened with r
BodyIn(table, toks, r) ==
    IF r.status # "Ok" THEN r
    ELSE BodyLoop(SubroutineBody(table, <<>>, <<>>), toks, r.idx)

\* parse_subroutine_body
parse_subroutine_body(table, toks, token_index) ==
    BodyIn(table, toks, Closed(toks, ParseOk(<<>>, token_index), "{"))

\* ParameterList {param_type, name}
ParameterList_new == [param_type |-> <<>>, name |-> <<>>]

\* parse_parameter_list: the loop after `(`
RECURSIVE ParameterLoop(_, _, _, _)
ParameterLoop(target, got_param_type, toks, current_idx) ==
    IF current_idx > Len(toks) THEN Panicked
    ELSE
    LET tk == toks[current_idx]
    IN  CASE tk.type = "Symbol" ->
                IF IsSymbol(tk, ")") THEN ParseOk(target, current_idx + 1)
                ELSE IF IsSymbol(tk, ",")
                THEN ParameterLoop(target, got_param_type, toks, current_idx + 1)
                ELSE ParseErr
          [] tk.type = "Keyword" ->
                IF ~parse_type(tk) THEN ParseErr
                ELSE ParameterLoop([target EXCEPT !.param_type = Append(@, tk)],
                                   TRUE, toks, current_idx + 1)
          [] tk.type = "Identifier" ->
                IF got_param_type
                THEN ParameterLoop([target EXCEPT !.name = Append(@, Str(tk.value))],
                                   FALSE, toks, current_idx + 1)
                ELSE ParameterLoop([target EXCEPT !.param_type = Append(@, tk)],
                                   TRUE, toks, current_idx + 1)
          [] OTHER -> ParseErr

\* the loop of a list that opened with r
ParametersIn(toks, r) ==
    IF r.status # "Ok" THEN r ELSE ParameterLoop(ParameterList_new, FALSE, toks, r.idx)

\* parse_parameter_list
parse_parameter_list(toks, token_index) ==
    ParametersIn(toks, Closed(toks, ParseOk(<<>>, token_index), "("))

\* `for i in 0..target.param_list.name.len() { symbol_table.add_entry(..) }`
RECURSIVE AddParameters(_, _, _)
AddParameters(table, param_list, i) ==
    IF i > Len(param_list.name) THEN table
    ELSE AddParameters(MethodSymbolTable_add_entry(
                           table, param_list.name[i], "Argument",
                           var_type_to_symbol_type(param_list.param_type[i])),
                       param_list, i + 1)

\* parse_subroutine_dec, after the body: the SubroutineDec and the ParseInfo
\* with the finished symbol table
SubroutineParsed(info, full_name, name, body) ==
    MapOk(body,
          LAMBDA b : [dec |-> SubroutineDec(name, variable_sum(b.variables), b.statements),
                      info |-> [info EXCEPT !.symbol_table_per_method =
                                                HashMap_insert(@, full_name, b.table)]])

\* parse_subroutine_dec, after the parameter list
SubroutineBodyOf(toks, params) ==
    IF params.status # "Ok" THEN params
    ELSE parse_subroutine_body(AddParameters(MethodSymbolTable_new, params.value, 1),
                               toks, params.idx)

\* parse_subroutine_dec: token_index is that of the token after
\* `constructor`, `function` or `method`
parse_subroutine_dec(info, toks, token_index, class_name) ==
    IF token_index > Len(toks) THEN Panicked
    ELSE
    LET rt == toks[token_index]
    IN  IF ~(\/ rt.type = "Keyword" /\ Str(rt.value) \in {"int", "char", "boolean", "void"}
             \/ rt.type = "Identifier")
        THEN ParseErr
        ELSE IF token_index + 1 > Len(toks) \/ toks[token_index + 1].type # "Identifier"
        THEN Panicked
        ELSE LET name == Str(toks[token_index + 1].value)
                 full_name == class_name \o "." \o name
             IN  SubroutineParsed(
                     [info EXCEPT !.return_type =
                                      HashMap_insert(@, full_name, token_to_return_type(rt))],
                     full_name, name,
                     SubroutineBodyOf(toks, parse_parameter_list(toks, token_index + 2)))

\* parse_class_var_dec: the loop after the type; `prefix` is static or field
RECURSIVE ClassVarLoop(_, _, _, _, _)
ClassVarLoop(info, prefix, var_type, toks, current_idx) ==
    IF current_idx > Len(toks) THEN Panicked
    ELSE
    LET tk == toks[current_idx]
    IN  CASE tk.type = "Symbol" ->
                IF IsSymbol(tk, ",")
                THEN ClassVarLoop(info, prefix, var_type, toks, current_idx + 1)
                ELSE IF IsSymbol(tk, ";") THEN ParseOk(info, current_idx + 1)
                ELSE ParseErr
          [] tk.type = "Identifier" ->
                ClassVarLoop([info EXCEPT !.class_symbol_table =
                                 ClassSymbolTable_add_entry(@, Str(tk.value),
                                     keyword_to_category(prefix),
                                     var_type_to_symbol_type(var_type))],
                             prefix, var_type, toks, current_idx + 1)
          [] OTHER -> ParseErr

\* parse_class_var_dec: token_index is that of the token after the prefix
parse_class_var_dec(info, prefix, toks, token_index) ==
    IF token_index > Len(toks) THEN Panicked
    ELSE IF ~parse_type(toks[token_index]) THEN ParseErr
    ELSE ClassVarLoop(info, prefix, toks[token_index], toks, token_index + 1)

\* Class {name, subroutines}
Class(name, subroutines) == [name |-> name, subroutines |-> subroutines]

RECURSIVE ClassLoop(_, _, _, _)

\* parse_class, after a classVarDec and after a subroutineDec
ClassVarsParsed(class, toks, r) ==
    IF r.status # "Ok" THEN r ELSE ClassLoop(r.value, class, toks, r.idx)
SubroutineDecParsed(class, toks, r) ==
    IF r.status # "Ok" THEN r
    ELSE ClassLoop(r.value.info,
                   [class EXCEPT !.subroutines = Append(@, r.value.dec)],
                   toks, r.idx)

\* parse_class: the loop after `{`; it ends on the `}`, which it does not pass
ClassLoop(info, class, toks, current_idx) ==
    IF current_idx > Len(toks) THEN Panicked
    ELSE
    LET t == toks[current_idx]
    IN  CASE t.type = "Symbol" ->
                IF IsSymbol(t, "}")
                THEN ParseOk([class |-> class, info |-> info], current_idx)
                ELSE ParseErr
          [] t.type = "Keyword" ->
                IF Str(t.value) \in {"static", "field"}
                THEN ClassVarsParsed(class, toks,
                         parse_class_var_dec(info, Str(t.value), toks, current_idx + 1))
                ELSE IF Str(t.value) \in {"constructor", "function", "method"}
                THEN SubroutineDecParsed(class, toks,
                         parse_subroutine_dec(info, toks, current_idx + 1, class.name))
                ELSE ParseErr
          [] OTHER -> ParseErr

\* parse_class: token_index is that of the token after `class`
parse_class(info, toks, token_index) ==
    IF token_index + 1 > Len(toks) THEN Panicked
    ELSE IF toks[token_index].type # "Identifier" THEN Panicked
    ELSE IF toks[token_index + 1].type # "Symbol" THEN Panicked
    ELSE IF ~IsSymbol(toks[token_index + 1], "{") THEN ParseErr
    ELSE ClassLoop(info, Class(Str(toks[token_index].value), <<>>), toks, token_index + 2)

\* parse_file: every token has to be consumed but the `}` of the class
AllConsumed(toks, r) ==
    IF r.status # "Ok" THEN r
    ELSE IF r.idx # Len(toks) THEN ParseErr
    ELSE r

\* parse_file, of the token list generate_token_list gives
parse_file(info, toks) ==
    IF toks = <<>> THEN Panicked
    ELSE IF toks[1].type # "Keyword" THEN Panicked
    ELSE IF Str(toks[1].value) # "class" THEN ParseErr
    ELSE AllConsumed(toks, parse_class(info, toks, 2))

----------------------------------------------------------------------------
(* Classes given to the code generator.  A class is Class {name,            *)
(* subroutines} as parse_class leaves it; `source` records what it was      *)
(* parsed from.                                                             *)

IntegerToken(n) == MkToken("IntegerConstant", <<ToString(n)>>, n)
KeywordToken(word) == MkToken("Keyword", <<word>>, 0)
IdentifierToken(name) == MkToken("Identifier", <<name>>, 0)

MaxTerms == 3       \* terms of an expression without parentheses
MaxNodes == 3       \* `if` and `while` statements of a subroutine

\* the binary operators of Jack
JackOps == BinaryOpSymbols \cup {"-"}

\* the term of the integer constant n
Literal(n) == [kind |-> "Integer", integer |-> n]

\* the expression 1 op1 2 ... opn (n+1), as a derivation of the Jack grammar
FlatExpression(ops) ==
    [terms |-> [i \in 1..(Len(ops) + 1) |-> Literal(i)],
     ops |-> ops]
FlatExpressions == {FlatExpression(ops) : ops \in SeqsUpTo(JackOps, MaxTerms - 1)}

\* expressions with one parenthesised operand and with one unary operand
One(term) == [terms |-> <<term>>, ops |-> <<>>]
Two(left, op, right) == [terms |-> <<left, right>>, ops |-> <<op>>]
NestedExpressions ==
    {Two(Literal(1), o, ExpressionInParenthesisTerm(Two(Literal(2), p, Literal(3)))) :
        o \in JackOps, p \in JackOps} \cup
    {Two(ExpressionInParenthesisTerm(Two(Literal(1), o, Literal(2))), p, Literal(3)) :
        o \in JackOps, p \in JackOps}
UnaryExpressions ==
    {Two(UnaryOpTerm(u, Literal(1)), o, Literal(2)) : u \in {"-", "~"}, o \in JackOps} \cup
    {Two(Literal(1), o, UnaryOpTerm(u, Literal(2))) : u \in {"-", "~"}, o \in JackOps} \cup
    {One(UnaryOpTerm(u, ExpressionInParenthesisTerm(Two(Literal(1), o, Literal(2))))) :
        u \in {"-", "~"}, o \in JackOps}
JackExpressions == FlatExpressions \cup NestedExpressions \cup UnaryExpressions

\* the tokens of an expression of the Jack grammar
RECURSIVE TermTokens(_)
RECURSIVE ExpressionTokensFrom(_, _)
ExpressionTokensFrom(e, i) ==
    IF i > Len(e.terms) THEN <<>>
    ELSE (IF i > 1 THEN <<SymbolToken(e.ops[i - 1])>> ELSE <<>>) \o
         TermTokens(e.terms[i]) \o ExpressionTokensFrom(e, i + 1)
ExpressionTokens(e) == ExpressionTokensFrom(e, 1)
TermTokens(t) ==
    CASE t.kind = "Integer" -> <<IntegerToken(t.integer)>>
      [] t.kind = "ExpresssionInParenthesis" ->
            <<SymbolToken("(")>> \o ExpressionTokens(t.expression) \o <<SymbolToken(")")>>
      [] t.kind = "UnaryOp" -> <<SymbolToken(t.op)>> \o TermTokens(t.term)

\* the tokens of `Output.printInt(e);`
PrintTokens(e) ==
    <<IdentifierToken("Output"), SymbolToken("."), IdentifierToken("printInt"),
      SymbolToken("(")>> \o ExpressionTokens(e) \o <<SymbolToken(")"), SymbolToken(";")>>

\* class Main { function void main() { do Output.printInt(e); return; } }
PrintClass(e) ==
    [name |-> "Main",
     subroutines |-> <<SubroutineDec("main", 0,
                                     <<parse_do_statement(PrintTokens(e), 1).value,
                                       ReturnStatement>>)>>,
     source |-> [kind |-> "expression", expression |-> e]]
PrintClasses ==
    {PrintClass(e) : e \in {x \in JackExpressions :
                               parse_do_statement(PrintTokens(x), 1).status = "Ok"}}

\* the condition of `if (true)` and `while (true)`
TrueCondition ==
    parse_expression(Expression_new, <<KeywordToken("true"), SymbolToken(")")>>, 1).value

\* the statement lists with n `if` and `while` statements, nested ones included
RECURSIVE Nested(_)
RECURSIVE StatementsOf(_)
\* the `if` and `while` statements that hold n of them, themselves included
Nested(n) ==
    {WhileStatement(TrueCondition, b) : b \in StatementsOf(n - 1)} \cup
    {IfStatement(TrueCondition, b, <<>>) : b \in StatementsOf(n - 1)} \cup
    UNION {{IfStatement(TrueCondition, b, <<e>>) :
               b \in StatementsOf(i), e \in StatementsOf(n - 1 - i)} : i \in 0..(n - 1)}
StatementsOf(n) ==
    IF n = 0 THEN {<<>>}
    ELSE UNION {{<<s>> \o rest : s \in Nested(k), rest \in StatementsOf(n - k)} : k \in 1..n}

Bodies == UNION {StatementsOf(n) : n \in 0..MaxNodes}

\* class Main with the subroutines `first` and, unless `second` is <<>>, `second`
BranchClass(first, second) ==
    [name |-> "Main",
     subroutines |->
        <<SubroutineDec("first", 0, first \o <<ReturnStatement>>)>> \o
        (IF second = <<>> THEN <<>>
         ELSE <<SubroutineDec("second", 0, second[1] \o <<ReturnStatement>>)>>),
     source |-> [kind |-> "statements", expression |-> Expression_new]]
BranchClasses ==
    {BranchClass(first, second) :
        first \in Bodies, second \in {<<>>} \cup {<<b>> : b \in StatementsOf(1)}}

JackClasses == PrintClasses \cup BranchClasses

\* the ParseInfo parse_subroutine_dec leaves for a class of void subroutines
\* without parameters and variables
ClassParseInfo(class) ==
    LET names == {class.name \o "." \o class.subroutines[i].name :
                     i \in DOMAIN class.subroutines}
    IN  [class_symbol_table |-> ClassSymbolTable_new,
         symbol_table_per_method |-> [n \in names |-> MethodSymbolTable_new],
         return_type |-> [n \in names |-> ReturnType("Void")] @@ OsFunctions]

----------------------------------------------------------------------------
(* Class::compile *)

CmpInit ==
    /\ jackClass \in JackClasses
    /\ parseInfo = ClassParseInfo(jackClass)
    /\ subNo = 1
    /\ vmText = <<>>
    /\ subStart = <<>>
    /\ compileState = CompileState_new(jackClass.name)
    /\ cmpStatus = "compiling"
    /\ jackTokens = <<>>
    /\ parseStatus = "Ok"

\* one turn of `for s in &self.subroutines`
CompileSubroutine ==
    /\ cmpStatus = "compiling"
    /\ subNo <= Len(jackClass.subroutines)
    /\ LET r == SubroutineDec_compile(jackClass.subroutines[subNo], parseInfo, compileState)
       IN  IF r.panic
           THEN /\ cmpStatus' = "panic"
                /\ UNCHANGED <<subNo, vmText, subStart, compileState>>
           ELSE /\ vmText' = vmText \o r.out
                /\ subStart' = Append(subStart, Len(vmText))
                /\ compileState' = r.state
                /\ subNo' = subNo + 1
                /\ UNCHANGED cmpStatus
    /\ UNCHANGED <<jackClass, parseInfo, jackTokens, parseStatus>>
    /\ UNCHANGED <<asmVars, vmVars, tokVars>>

\* the subroutines are compiled: Ok(output) is returned
CmpFinish ==
    /\ cmpStatus = "compiling"
    /\ subNo > Len(jackClass.subroutines)
    /\ cmpStatus' = "done"
    /\ UNCHANGED <<jackClass, parseInfo, subNo, vmText, subStart, compileState>>
    /\ UNCHANGED <<jackTokens, parseStatus>>
    /\ UNCHANGED <<asmVars, vmVars, tokVars>>

CmpNext == CompileSubroutine \/ CmpFinish

InitCompile == CmpInit /\ AsmIdle /\ VmIdle /\ TokIdle

SpecCompile == InitCompile /\ [][CmpNext]_vars

----------------------------------------------------------------------------
(* Claims about the code generator *)

\* the lines Class::compile wrote for the j-th subroutine
SubText(j) ==
    SubSeq(vmText, subStart[j] + 1,
           IF j < Len(subStart) THEN subStart[j + 1] ELSE Len(vmText))

\* the VM command of a binary operator
VmOf(op) ==
    CASE op = "+" -> "add"
      [] op = "-" -> "sub"
      [] op = "=" -> "eq"
      [] op = ">" -> "gt"
      [] op = "<" -> "lt"
      [] op = "&" -> "and"
      [] op = "|" -> "or"
      [] op = "*" -> "call Math.multiply 2"
      [] op = "/" -> "call Math.divide 2"

\* code(t0), code(t1), vm(op1), ..., code(tn), vm(opn) for the expression
\* t0 op1 t1 ... opn tn, where the code of an integer k is `push constant k`,
\* that of (e) the lowering of e, and that of -t and ~t the code of t and then
\* `neg` and `not`
RECURSIVE TermCode(_)
RECURSIVE LoweredFrom(_, _)
LoweredFrom(e, i) ==
    IF i > Len(e.terms) THEN <<>>
    ELSE TermCode(e.terms[i]) \o (IF i > 1 THEN <<VmOf(e.ops[i - 1])>> ELSE <<>>) \o
         LoweredFrom(e, i + 1)
Lowered(e) == LoweredFrom(e, 1)
TermCode(t) ==
    CASE t.kind = "Integer" -> <<"push constant " \o ToString(t.integer)>>
      [] t.kind = "ExpresssionInParenthesis" -> Lowered(t.expression)
      [] t.kind = "UnaryOp" -> TermCode(t.term) \o <<IF t.op = "-" THEN "neg" ELSE "not">>

\* the expression 1 + (2 * 3)
Seven == Two(Literal(1), "+", ExpressionInParenthesisTerm(Two(Literal(2), "*", Literal(3))))

\* the class of an expression is compiled to the lowering of the expression,
\* between the function line and the lines of the call and of `return;`
LoweredAsStated ==
    /\ vmText = <<"function Main.main 0">> \o Lowered(jackClass.source.expression) \o
                <<"call Output.printInt 1", "pop temp 0", "push constant 0", "return">>
    /\ jackClass.source.expression = Seven =>
          vmText = <<"function Main.main 0", "push constant 1", "push constant 2",
                     "push constant 3", "call Math.multiply 2", "add",
                     "call Output.printInt 1", "pop temp 0", "push constant 0", "return">>

\* C19: an expression t0 op1 t1 ... opn tn is lowered to code(t0), code(t1),
\* vm(op1), ..., code(tn), vm(opn), strictly left to right, with + - = > < & |
\* becoming add sub eq gt lt and or, and * and / the calls of Math.multiply
\* and Math.divide; the class Main whose main does
\* `do Output.printInt(1 + (2 * 3)); return;` compiles to exactly the ten
\* lines given.
C19_ExpressionLowering ==
    jackClass.source.kind = "expression" =>
        /\ cmpStatus # "panic"
        /\ cmpStatus = "done" => LoweredAsStated

\* an operand after the first that is a term -t
MinusOperand(e) ==
    \E i \in DOMAIN e.terms : i > 1 /\ e.terms[i].kind = "UnaryOp" /\ e.terms[i].op = "-"

\* the part of C19 that holds: the lowering is the stated one for every
\* expression but those with an operand -t after an operator, and these are
\* the ones on which the compiler panics
C19_ExceptMinusOperand ==
    jackClass.source.kind = "expression" =>
        /\ cmpStatus = "panic" => MinusOperand(jackClass.source.expression)
        /\ cmpStatus = "done" =>
              (LoweredAsStated /\ ~MinusOperand(jackClass.source.expression))

\* the number of statements of the kind in a statement list, nested ones included
RECURSIVE Count(_, _)
Count(list, kind) ==
    IF list = <<>> THEN 0
    ELSE LET s == Head(list)
         IN  (IF s.kind = kind THEN 1 ELSE 0) +
             (IF s.kind \in {"If", "While"} THEN Count(s.statements, kind) ELSE 0) +
             (IF s.kind = "If" /\ s.else_block # <<>>
              THEN Count(s.else_block[1], kind) ELSE 0) +
             Count(Tail(list), kind)

\* the lines of a list of `if (true)`, `while (true)` and `return;` statements
\* in which the `if` statements are numbered from i and the `while` statements
\* from w in source order
RECURSIVE Numbered(_, _, _)
Numbered(list, i, w) ==
    IF list = <<>> THEN <<>>
    ELSE LET s == Head(list)
             k == ToString(i)
             l == ToString(w)
         IN  (CASE s.kind = "If" ->
                      <<"push constant 0", "not", "not", "if-goto IF_FALSE" \o k>> \o
                      Numbered(s.statements, i + 1, w) \o
                      <<"goto IF_TRUE" \o k, "label IF_FALSE" \o k>> \o
                      (IF s.else_block = <<>> THEN <<>>
                       ELSE Numbered(s.else_block[1], i + 1 + Count(s.statements, "If"),
                                     w + Count(s.statements, "While"))) \o
                      <<"label IF_TRUE" \o k>>
                [] s.kind = "While" ->
                      <<"label WHILE_EXP" \o l, "push constant 0", "not", "not",
                        "if-goto WHILE_END" \o l>> \o
                      Numbered(s.statements, i, w + 1) \o
                      <<"goto WHILE_EXP" \o l, "label WHILE_END" \o l>>
                [] s.kind = "Return" -> <<"push constant 0", "return">>) \o
             Numbered(Tail(list), i + Count(<<s>>, "If"), w + Count(<<s>>, "While"))

\* the lines that define a label of an `if` or a `while`
LabelDefinitions(n) ==
    {"label " \o prefix \o ToString(k) :
        prefix \in {"IF_TRUE", "IF_FALSE", "WHILE_EXP", "WHILE_END"}, k \in 0..n}

\* C20: within one subroutine the k-th `if` in source order, nested statements
\* included, uses IF_TRUEk and IF_FALSEk and the k-th `while` WHILE_EXPk and
\* WHILE_ENDk, counting from 0 in every subroutine, so that no label is
\* defined twice inside a subroutine.
C20_LabelCounters ==
    jackClass.source.kind = "statements" =>
        /\ cmpStatus # "panic"
        /\ \A j \in DOMAIN subStart :
              LET text == SubText(j)
                  labels == LabelDefinitions(Len(vmText))
              IN  /\ text = <<"function Main." \o jackClass.subroutines[j].name \o " 0">> \o
                             Numbered(jackClass.subroutines[j].statements, 0, 0)
                  /\ \A p \in DOMAIN text :
                        text[p] \in labels => \A q \in DOMAIN text : text[q] = text[p] => q = p

\* a class is compiled whose first subroutine has an `if` nested in an `if`
\* and a `while`, and whose second subroutine has an `if`
C20_Witness ==
    /\ jackClass.source.kind = "statements"
    /\ cmpStatus = "done"
    /\ Len(subStart) = 2
    /\ jackClass.subroutines[1].statements[1].kind = "If"
    /\ Count(jackClass.subroutines[1].statements[1].statements, "If") = 1
    /\ Count(jackClass.subroutines[1].statements, "While") = 1
    /\ \E p \in DOMAIN SubText(1) : SubText(1)[p] = "label IF_TRUE1"
    /\ \E p \in DOMAIN SubText(1) : SubText(1)[p] = "label WHILE_EXP0"
    /\ \E p \in DOMAIN SubText(2) : SubText(2)[p] = "label IF_TRUE0"

----------------------------------------------------------------------------
(* Token lists given to parse_file.  A program is written as the sequence   *)
(* of its words; WordToken makes of a word the token the tokenizer makes of *)
(* it when it stands between blanks.                                         *)

WordToken(word) ==
    IF Contains(KEYWORD_LIST, word) THEN KeywordToken(word)
    ELSE IF Contains(SYMBOL_LIST, word) THEN SymbolToken(word)
    ELSE IF word \in Digits THEN IntegerToken(DigitVal(word))
    ELSE IdentifierToken(word)
WordTokens(words) == [i \in DOMAIN words |-> WordToken(words[i])]

MaxNames == 2       \* names of one `var` declaration
MaxDecs == 2        \* `var` declarations of a subroutine
MaxCalls == 2       \* `do` statements of a subroutine

\* the concatenation of a sequence of sequences
RECURSIVE Concat(_)
Concat(seqs) == IF seqs = <<>> THEN <<>> ELSE Head(seqs) \o Concat(Tail(seqs))

\* the names a, b, ... separated by commas
RECURSIVE CommaList(_)
CommaList(names) ==
    IF Len(names) <= 1 THEN names
    ELSE <<Head(names), ",">> \o CommaList(Tail(names))

\* `var int x, y;` and the sequences of such declarations
VarWords(names) == <<"var", "int">> \o CommaList(names) \o <<";">>
VarNames == {n \in SeqsUpTo({"x", "y"}, MaxNames) : n # <<>>}
VarDecChoices ==
    {Concat(decs) : decs \in SeqsUpTo({VarWords(n) : n \in VarNames}, MaxDecs)}

\* the parameter lists
ParameterChoices ==
    {<<>>, <<"int", "a">>, <<"int", "a", ",", "boolean", "b">>,
     <<"int", "a", ",", "int", "a">>, <<"Main", "a">>}

\* the class variable declarations
ClassVarChoices ==
    {<<>>, <<"static", "int", "s", ";">>, <<"field", "int", "f", ";">>,
     <<"static", "int", "s", ";", "field", "int", "f", ",", "g", ";">>,
     <<"static", "int", "s", ",", "t", ";", "static", "char", "u", ";">>,
     <<"field", "int", "f", ",", "f", ";">>,
     <<"static", "int", "s", ";", "field", "int", "s", ";">>}

\* `function rt name(parameters) { body }`
SubroutineWords(rt, name, parameters, body) ==
    <<"function", rt, name, "(">> \o parameters \o <<")", "{">> \o body \o <<"}">>

\* `class Main { members }`
ClassWords(members) == <<"class", "Main", "{">> \o members \o <<"}">>

\* the subroutine `helper` of each return type; only a void subroutine can
\* hold a `return`
ReturnTypeWords == {"void", "int", "char", "boolean", "Main"}
HelperWords(rt) ==
    SubroutineWords(rt, "helper", <<>>,
                    IF rt = "void" THEN <<"return", ";">> ELSE <<>>)

\* the calls of the `do` statements: qualified and unqualified, of OS
\* subroutines and of the subroutine of the class
CallWords ==
    {<<"Output", ".", "printInt", "(", "1", ")">>,
     <<"Sys", ".", "halt", "(", ")">>,
     <<"Math", ".", "multiply", "(", "1", ",", "2", ")">>,
     <<"Memory", ".", "peek", "(", "1", ")">>,
     <<"Main", ".", "helper", "(", ")">>,
     <<"helper", "(", ")">>,
     <<"Math", ".", "abs", "(", "1", ")">>}
DoWords(call) == <<"do">> \o call \o <<";">>

\* classes whose `main` is a list of `do` statements
DoPrograms ==
    {ClassWords(SubroutineWords("void", "main", <<>>,
                                Concat(calls) \o <<"return", ";">>) \o HelperWords(rt)) :
        calls \in {c \in SeqsUpTo({DoWords(c) : c \in CallWords}, MaxCalls) : c # <<>>},
        rt \in ReturnTypeWords}

\* classes whose subroutines declare variables
VarPrograms ==
    {ClassWords(SubroutineWords("void", "main", p, v \o <<"return", ";">>) \o
                SubroutineWords("void", "helper", <<>>, w \o <<"return", ";">>)) :
        p \in ParameterChoices, v \in VarDecChoices,
        w \in {<<>>, VarWords(<<"z">>), VarWords(<<"x", "z">>)}}

\* classes that declare class variables
ClassVarPrograms ==
    {ClassWords(c \o SubroutineWords("void", "main", p, v \o <<"return", ";">>)) :
        c \in ClassVarChoices, p \in ParameterChoices,
        v \in {<<>>, VarWords(<<"x">>), VarWords(<<"x", "x">>)}}

\* statements that read and write the variable v
UsedNames == {"x", "o", "a", "s", "f", "q"}
UseWords ==
    {<<"let", v, "=", "1", ";">> : v \in UsedNames} \cup
    {<<"do", "Output", ".", "printInt", "(", v, ")", ";">> : v \in UsedNames} \cup
    {<<"let", v, "=", w, "+", "1", ";">> : v \in UsedNames, w \in UsedNames}

\* class Main { static int s; field int f;
\*              function void main(int a) { var int y, x; var Main o; <use> return; } }
UsePrograms ==
    {ClassWords(<<"static", "int", "s", ";", "field", "int", "g", ",", "f", ";">> \o
                SubroutineWords("void", "main", <<"boolean", "b", ",", "int", "a">>,
                                <<"var", "int", "y", ",", "x", ";",
                                  "var", "Main", "o", ";">> \o
                                u \o <<"return", ";">>)) :
        u \in UseWords}

\* well-formed classes with every kind of statement
SamplePrograms ==
    {ClassWords(<<"field", "int", "f", ";">> \o
                SubroutineWords("void", "main", <<"int", "a">>,
                    <<"var", "int", "x", ";",
                      "let", "x", "=", "a", "+", "1", ";",
                      "if", "(", "x", ")", "{", "do", "Sys", ".", "halt", "(", ")", ";", "}",
                      "else", "{", "let", "x", "=", "2", ";", "}",
                      "while", "(", "true", ")", "{", "}",
                      "return", ";">>)),
     ClassWords(SubroutineWords("int", "main", <<>>,
                    <<"do", "helper", "(", "1", ",", "2", ")", ";",
                      "let", "x", "[", "1", "]", "=", "2", ";",
                      "return", "x", ";">>)),
     ClassWords(<<>>)}

\* the words put in the place of a word of a class
Replacements == {"x", ";", "1", "class", "}", "(", "var", "let"}

\* truncated and malformed token lists: the prefixes of the sample classes,
\* and the sample classes with one word replaced
Prefixes(words) == {SubSeq(words, 1, n) : n \in 0..Len(words)}
Replaced(words) ==
    {[words EXCEPT ![i] = r] : i \in DOMAIN words, r \in Replacements}
BrokenPrograms ==
    UNION {Prefixes(w) \cup Replaced(w) : w \in SamplePrograms}

JackPrograms ==
    DoPrograms \cup VarPrograms \cup ClassVarPrograms \cup UsePrograms \cup
    SamplePrograms \cup BrokenPrograms

----------------------------------------------------------------------------
(* parse_file, then Class::compile of the class it gave *)

PrsInit ==
    /\ jackTokens \in {WordTokens(w) : w \in JackPrograms}
    /\ parseStatus = "start"
    /\ jackClass = Class("", <<>>)
    /\ parseInfo = ParseInfo_new
    /\ subNo = 1
    /\ vmText = <<>>
    /\ subStart = <<>>
    /\ compileState = CompileState_new("")
    /\ cmpStatus = "idle"

\* parse_file with a new ParseInfo; the class it returns is compiled
ParseFile ==
    /\ parseStatus = "start"
    /\ LET r == parse_file(parseInfo, jackTokens)
       IN  /\ parseStatus' = r.status
           /\ IF r.status = "Ok"
              THEN /\ jackClass' = r.value.class
                   /\ parseInfo' = r.value.info
                   /\ compileState' = CompileState_new(r.value.class.name)
                   /\ cmpStatus' = "compiling"
              ELSE UNCHANGED <<jackClass, parseInfo, compileState, cmpStatus>>
    /\ UNCHANGED <<jackTokens, subNo, vmText, subStart>>
    /\ UNCHANGED <<asmVars, vmVars, tokVars>>

PrsNext == ParseFile \/ CompileSubroutine \/ CmpFinish

InitParse == PrsInit /\ AsmIdle /\ VmIdle /\ TokIdle

SpecParse == InitParse /\ [][PrsNext]_vars

----------------------------------------------------------------------------
(* Claims about `do` statements and calls *)

\* the subroutine is a list of `do` statements with integer arguments, ended
\* by `return;`
IntegerCall(call) ==
    \A p \in DOMAIN call.parameters :
        \A t \in DOMAIN call.parameters[p].terms :
            call.parameters[p].terms[t].kind = "Integer"
DoBody(sub) ==
    /\ Len(sub.statements) >= 2
    /\ sub.statements[Len(sub.statements)] = ReturnStatement
    /\ \A i \in 1..(Len(sub.statements) - 1) :
          sub.statements[i].kind = "Do" /\ IntegerCall(sub.statements[i].call)

\* the name under which the callee of a call is registered
Callee(call, class_name) ==
    IF call.type = "Method" THEN call.source_name \o "." \o call.method_name
    ELSE class_name \o "." \o call.name

\* the code of the arguments and the `call` line of a call; the callee f of
\* an unqualified call is written as it is called or as Class.f
RECURSIVE ArgumentCode(_, _)
ArgumentCode(parameters, i) ==
    IF i > Len(parameters) THEN <<>>
    ELSE Lowered(parameters[i]) \o ArgumentCode(parameters, i + 1)
CallLines(call, class_name) ==
    {"call " \o name \o " " \o ToString(Len(call.parameters)) :
        name \in {Callee(call, class_name)} \cup
                 (IF call.type = "Function" THEN {call.name} ELSE {})}
CallCode(call, class_name) ==
    {ArgumentCode(call.parameters, 1) \o <<line>> : line \in CallLines(call, class_name)}

\* the callee of the call is registered, with the return type void
Registered(call) == Callee(call, jackClass.name) \in DOMAIN parseInfo.return_type
VoidCallee(call) ==
    Registered(call) /\ parseInfo.return_type[Callee(call, jackClass.name)].type = "Void"

\* what follows the `call` line: `pop temp 0` after every call ("always") or
\* after the calls of the callees registered as void ("void")
AfterCall(call, pops) ==
    IF pops = "always" \/ VoidCallee(call) THEN <<"pop temp 0">> ELSE <<>>

\* the texts of a list of `do` statements ended by `return;`, from the i-th
\* statement on
RECURSIVE DoTexts(_, _, _, _)
DoTexts(statements, i, class_name, pops) ==
    IF i = Len(statements) THEN {<<"push constant 0", "return">>}
    ELSE {code \o AfterCall(statements[i].call, pops) \o rest :
             code \in CallCode(statements[i].call, class_name),
             rest \in DoTexts(statements, i + 1, class_name, pops)}

\* the subroutines with a body of `do` statements that were compiled
CompiledDoBodies ==
    {j \in DOMAIN subStart : DoBody(jackClass.subroutines[j])}

\* C21: the code of every `do` statement is the code of the call followed by
\* `pop temp 0` as its last line, whatever the return type of the callee and
\* whether the call is qualified or not.
C21_DoPopsTemp ==
    \A j \in CompiledDoBodies :
        Tail(SubText(j)) \in DoTexts(jackClass.subroutines[j].statements, 1, jackClass.name,
                                     "always")

\* the part of C21 that holds: the statement ends with `pop temp 0` when the
\* call is qualified and its callee is registered as void
QualifiedVoid(sub) ==
    \A i \in 1..(Len(sub.statements) - 1) :
        sub.statements[i].call.type = "Method" /\ VoidCallee(sub.statements[i].call)
C21_QualifiedVoid ==
    \A j \in CompiledDoBodies :
        QualifiedVoid(jackClass.subroutines[j]) =>
            Tail(SubText(j)) \in DoTexts(jackClass.subroutines[j].statements, 1,
                                         jackClass.name, "always")

\* C22: the line after the `call` line of a call, qualified or unqualified,
\* whose callee is registered as void is `pop temp 0`; the call of a callee
\* registered with another return type emits no `pop temp 0`.  (The code of a
\* `do` statement is the code of its call: DoStatement::compile adds nothing.)
C22_VoidCallPops ==
    \A j \in CompiledDoBodies :
        (\A i \in 1..(Len(jackClass.subroutines[j].statements) - 1) :
            Registered(jackClass.subroutines[j].statements[i].call)) =>
        Tail(SubText(j)) \in
            DoTexts(jackClass.subroutines[j].statements, 1, jackClass.name, "void")

\* the part of C22 that holds: the qualified calls
Qualified(sub) ==
    \A i \in 1..(Len(sub.statements) - 1) :
        sub.statements[i].call.type = "Method" /\ Registered(sub.statements[i].call)
C22_Qualified ==
    \A j \in CompiledDoBodies :
        Qualified(jackClass.subroutines[j]) =>
        Tail(SubText(j)) \in
            DoTexts(jackClass.subroutines[j].statements, 1, jackClass.name, "void")

----------------------------------------------------------------------------
(* Claims about declarations *)

\* the indices of the tokens `constructor`, `function` and `method`, in order
SubroutineKeywords == {"constructor", "function", "method"}
SubroutineStarts(toks) ==
    {i \in DOMAIN toks : toks[i].type = "Keyword" /\ Str(toks[i].value) \in SubroutineKeywords}
RECURSIVE Ascending(_)
Ascending(S) ==
    IF S = {} THEN <<>>
    ELSE LET least == CHOOSE i \in S : \A k \in S : i <= k
         IN  <<least>> \o Ascending(S \ {least})

\* the tokens of the j-th subroutine of the token list
SubroutineSpan(toks, j) ==
    LET starts == Ascending(SubroutineStarts(toks))
    IN  starts[j]..(IF j < Len(starts) THEN starts[j + 1] - 1 ELSE Len(toks))

\* the token at q is a name declared by a `var` declaration: an identifier
\* after the type, before the `;` of the declaration
DeclaredByVar(toks, q) ==
    /\ toks[q].type = "Identifier"
    /\ \E v \in 1..(q - 2) :
          /\ IsKeyword(toks, v, "var")
          /\ \A m \in v..q : ~IsSymbol(toks[m], ";")

\* the number of local variables the `var` declarations of the j-th
\* subroutine declare
DeclaredLocals(toks, j) ==
    Cardinality({q \in SubroutineSpan(toks, j) : DeclaredByVar(toks, q)})

\* `function C.S k` for the j-th subroutine S of the class C of the token list
StatedFunctionLine(toks, j) ==
    LET start == Ascending(SubroutineStarts(toks))[j]
    IN  "function " \o Str(toks[2].value) \o "." \o Str(toks[start + 2].value) \o " " \o
        ToString(DeclaredLocals(toks, j))

\* C23: the VM code of every subroutine S of a parsed class C begins with the
\* line `function C.S k`, where k is the number of local variables the `var`
\* declarations of S declare, which is counts(var) of the symbol table of S.
C23_FunctionLine ==
    \A j \in DOMAIN subStart :
        /\ SubText(j)[1] = StatedFunctionLine(jackTokens, j)
        /\ parseInfo.symbol_table_per_method[
               jackClass.name \o "." \o jackClass.subroutines[j].name].var_count =
           DeclaredLocals(jackTokens, j)

\* a class is compiled whose second subroutine declares a local variable and
\* whose first declares three, one of them twice
C23_Witness ==
    /\ cmpStatus = "done"
    /\ Len(subStart) = 2
    /\ SubText(1)[1] = "function Main.main 3"
    /\ SubText(2)[1] = "function Main.helper 1"
    /\ \E q \in SubroutineSpan(jackTokens, 1) :
          DeclaredByVar(jackTokens, q) /\ Str(jackTokens[q].value) = "y"

\* the entries of the category in a symbol table have the indices 0..n-1, each
\* once, and n is the counter of the category
Dense(table, category, count) ==
    LET names == {n \in DOMAIN table : table[n].category = category}
    IN  /\ Cardinality(names) = count
        /\ {table[n].index : n \in names} = 0..(count - 1)
        /\ \A n \in names : \A k \in names : table[n].index = table[k].index => n = k
SymbolTablesDense ==
    /\ Dense(parseInfo.class_symbol_table.table, "Static",
             parseInfo.class_symbol_table.static_count)
    /\ Dense(parseInfo.class_symbol_table.table, "Field",
             parseInfo.class_symbol_table.field_count)
    /\ \A m \in DOMAIN parseInfo.symbol_table_per_method :
          LET t == parseInfo.symbol_table_per_method[m]
          IN  /\ Dense(t.table, "Argument", t.argument_count)
              /\ Dense(t.table, "Var", t.var_count)

\* a subroutine of the token list declares a local variable twice
DuplicateVar(toks) ==
    \E j \in 1..Cardinality(SubroutineStarts(toks)) :
        \E q \in SubroutineSpan(toks, j) : \E r \in SubroutineSpan(toks, j) :
            /\ q < r
            /\ DeclaredByVar(toks, q)
            /\ DeclaredByVar(toks, r)
            /\ toks[q].value = toks[r].value

\* C24: after any sequence of insertions into a class or a subroutine symbol
\* table the indices of each category are exactly 0..n-1, n being the number
\* of entries of the category and its counter; the insertion of a name the
\* scope already holds is rejected as a parse error.
C24_SymbolTables ==
    /\ SymbolTablesDense
    /\ parseStatus = "Ok" => ~DuplicateVar(jackTokens)

\* every insertion was that of a new name: the table holds as many entries as
\* the counters count
NoNameTwice(table, inserted) == Cardinality(DOMAIN table) = inserted
AllNamesNew ==
    /\ NoNameTwice(parseInfo.class_symbol_table.table,
                   parseInfo.class_symbol_table.static_count +
                   parseInfo.class_symbol_table.field_count)
    /\ \A m \in DOMAIN parseInfo.symbol_table_per_method :
          NoNameTwice(parseInfo.symbol_table_per_method[m].table,
                      parseInfo.symbol_table_per_method[m].argument_count +
                      parseInfo.symbol_table_per_method[m].var_count)

\* the part of C24 that holds: the indices are dense as long as no name is
\* inserted twice
C24_ExceptDuplicates == AllNamesNew => SymbolTablesDense

\* the return types section 6.4 of the specification lists for the Hack OS
RegistryAsStated ==
    LET int == {ReturnType("Int")}
        char == {ReturnType("Char")}
        void == {ReturnType("Void")}
        str == {ReturnClass("String")}
        arr == {ReturnClass("Array")}
        Of(class, names, types) == [n \in {class \o "." \o k : k \in names} |-> types]
    IN  Of("Math", {"multiply", "divide", "min", "max", "sqrt"}, int) @@
        Of("String", {"new", "appendChar"}, str) @@
        Of("String", {"dispose", "setCharAt", "eraseLastChar", "setInt"}, void) @@
        Of("String", {"length", "charAt", "intValue", "backSpace", "doubleQuote", "newLine"},
           int \cup char) @@
        Of("Array", {"new"}, arr) @@
        Of("Array", {"dispose"}, void) @@
        Of("Output", {"moveCursor", "printChar", "printString", "printInt", "println",
                      "backSpace"}, void) @@
        Of("Screen", {"clearScreen", "setColor", "drawPixel", "drawLine", "drawRectangle",
                      "drawCircle"}, void) @@
        Of("Keyboard", {"keyPressed", "readChar"}, char) @@
        Of("Keyboard", {"readLine"}, str) @@
        Of("Keyboard", {"readInt"}, int) @@
        Of("Memory", {"peek"}, int) @@
        Of("Memory", {"poke", "dealloc"}, void) @@
        Of("Memory", {"alloc"}, arr) @@
        Of("Sys", {"halt", "error", "wait"}, void)

\* the return type the j-th subroutine of the token list declares
DeclaredReturnType(toks, j) ==
    LET t == toks[Ascending(SubroutineStarts(toks))[j] + 1]
    IN  CASE t.type = "Identifier" -> ReturnClass(Str(t.value))
          [] Str(t.value) = "void" -> ReturnType("Void")
          [] Str(t.value) = "int" -> ReturnType("Int")
          [] Str(t.value) = "char" -> ReturnType("Char")
          [] Str(t.value) = "boolean" -> ReturnType("Boolean")

\* the registry holds the OS subroutines in `names` with a stated return type
RegistryHolds(names) ==
    \A n \in names :
        /\ n \in DOMAIN parseInfo.return_type
        /\ parseInfo.return_type[n] \in RegistryAsStated[n]

\* the subroutines parsed are registered with the return type they declare
SubroutinesRegistered ==
    parseStatus = "Ok" =>
        \A j \in DOMAIN jackClass.subroutines :
            LET full_name == jackClass.name \o "." \o jackClass.subroutines[j].name
            IN  /\ full_name \in DOMAIN parseInfo.return_type
                /\ parseInfo.return_type[full_name] = DeclaredReturnType(jackTokens, j)

\* C25: a new return-type registry holds every Hack OS subroutine with the
\* return type of section 6.4, String.dispose, String.setCharAt,
\* String.eraseLastChar and String.setInt being void, and the parse of a
\* subroutine S of the class C adds C.S with the return type S declares.
C25_Registry == RegistryHolds(DOMAIN RegistryAsStated) /\ SubroutinesRegistered

\* the part of C25 that holds: every entry but String.dispose
C25_ExceptDispose ==
    RegistryHolds(DOMAIN RegistryAsStated \ {"String.dispose"}) /\ SubroutinesRegistered

----------------------------------------------------------------------------
(* Claims about variables *)

\* the expression is made of variables and integers
PlainExpression(e) ==
    \A t \in DOMAIN e.terms : e.terms[t].kind \in {"VarName", "Integer"}

\* the variables an expression reads
ReadBy(e) == {e.terms[t].name : t \in {k \in DOMAIN e.terms : e.terms[k].kind = "VarName"}}

\* a statement that reads and writes variables: `let v = e;` and
\* `do Output.printInt(e);`
UseStatement(s) ==
    \/ s.kind = "Let" /\ ~s.array /\ PlainExpression(s.right_hand_side)
    \/ /\ s.kind = "Do"
       /\ s.call = MethodCall("Output", "printInt", s.call.parameters)
       /\ Len(s.call.parameters) = 1
       /\ PlainExpression(s.call.parameters[1])
UsedBy(s) ==
    IF s.kind = "Let" THEN {s.var_name} \cup ReadBy(s.right_hand_side)
    ELSE ReadBy(s.call.parameters[1])

\* the entry of the variable v in the j-th subroutine: that of the subroutine
\* table first, that of the class table second
MethodTable(j) ==
    parseInfo.symbol_table_per_method[
        jackClass.name \o "." \o jackClass.subroutines[j].name].table
Known(v, j) == v \in DOMAIN MethodTable(j) \cup DOMAIN parseInfo.class_symbol_table.table
Resolve(v, j) ==
    IF v \in DOMAIN MethodTable(j) THEN MethodTable(j)[v]
    ELSE parseInfo.class_symbol_table.table[v]

\* the segment of a category
SegmentOf(category) ==
    CASE category = "Static" -> "static"
      [] category = "Field" -> "this"
      [] category = "Argument" -> "argument"
      [] category = "Var" -> "local"

\* `push seg i` and `pop seg i` for the variable v
Access(command, v, j) ==
    command \o " " \o SegmentOf(Resolve(v, j).category) \o " " \o ToString(Resolve(v, j).index)

\* the code of an expression of variables and integers
RECURSIVE PlainCode(_, _, _)
PlainCode(e, i, j) ==
    IF i > Len(e.terms) THEN <<>>
    ELSE <<IF e.terms[i].kind = "VarName" THEN Access("push", e.terms[i].name, j)
           ELSE "push constant " \o ToString(e.terms[i].integer)>> \o
         (IF i > 1 THEN <<VmOf(e.ops[i - 1])>> ELSE <<>>) \o
         PlainCode(e, i + 1, j)

\* the code of the statements of the j-th subroutine from the i-th on
RECURSIVE UseCode(_, _, _)
UseCode(statements, i, j) ==
    IF i > Len(statements) THEN <<>>
    ELSE (CASE statements[i].kind = "Let" ->
                  PlainCode(statements[i].right_hand_side, 1, j) \o
                  <<Access("pop", statements[i].var_name, j)>>
            [] statements[i].kind = "Do" ->
                  PlainCode(statements[i].call.parameters[1], 1, j) \o
                  <<"call Output.printInt 1", "pop temp 0">>
            [] statements[i].kind = "Return" -> <<"push constant 0", "return">>) \o
         UseCode(statements, i + 1, j)

\* the subroutines made of such statements, ended by `return;`, whose
\* variables all satisfy Usable
UseBodies(Usable(_, _, _)) ==
    {j \in DOMAIN jackClass.subroutines :
        LET statements == jackClass.subroutines[j].statements
        IN  /\ Len(statements) >= 2
            /\ statements[Len(statements)] = ReturnStatement
            /\ \A i \in 1..(Len(statements) - 1) :
                  /\ UseStatement(statements[i])
                  /\ \A v \in UsedBy(statements[i]) : Usable(v, j, statements[i])}

\* the subroutine is compiled, and to the code stated
CompiledAsStated(j) ==
    /\ ~(cmpStatus = "panic" /\ subNo = j)
    /\ j \in DOMAIN subStart =>
          Tail(SubText(j)) = UseCode(jackClass.subroutines[j].statements, 1, j)

\* C26: in a subroutine body the term `v` emits `push <seg> <i>` and the
\* statement `let v = e` the code of e and then `pop <seg> <i>`, where the
\* entry of v is that of the subroutine table or else that of the class table,
\* i is its index and seg is static, this, argument or local for the category
\* static, field, argument or var.
C26_VariableAccess ==
    parseStatus = "Ok" =>
        \A j \in UseBodies(LAMBDA v, k, s : Known(v, k)) : CompiledAsStated(j)

\* the part of C26 that holds: the variables of the subroutine table that are
\* not of a class type, read as argument or local and written as local
C26_Locals ==
    parseStatus = "Ok" =>
        \A j \in UseBodies(LAMBDA v, k, s :
                              /\ v \in DOMAIN MethodTable(k)
                              /\ MethodTable(k)[v].symbol_type.type # "Class"
                              /\ (s.kind = "Let" /\ v = s.var_name) =>
                                    MethodTable(k)[v].category = "Var") :
            CompiledAsStated(j)

----------------------------------------------------------------------------
(* Claims about the errors of the parser *)

\* C27: for every token list, the empty, the truncated and the malformed
\* ones included, parse_file ends by returning a Class or an Error for the
\* first malformed construct; it never panics, be it by a failed unwrap or by
\* a token index out of range.
C27_ParseReturns == parseStatus \in {"start", "Ok", "Err"}


----------------------------------------------------------------------------
(* The comparisons of the VM translator on the whole 16-bit range *)

CompareOps == {"eq", "gt", "lt"}

\* the code of the comparison was run from a stack holding x below y
RanCompare(op) == op \in CompareOps /\ RanSingle(VmLine(op, "", 0))

\* the cell that held x holds the result of the comparison
CompareResult(op) ==
    Read(ram, SP0 - 2) = OperationResult(op, Read(ram0, SP0 - 2), Read(ram0, SP0 - 1))

\* C28: for every pair of 16-bit two's-complement values x (pushed first) and
\* y, the code of `lt` leaves -1 if x < y and 0 otherwise, that of `gt` -1 if
\* x > y and 0 otherwise, that of `eq` -1 if x = y and 0 otherwise, also
\* where x - y does not fit in 16 bits.
C28_Comparisons == \A op \in CompareOps : RanCompare(op) => CompareResult(op)

\* the part of C28 that holds: eq on every pair, gt and lt on the pairs whose
\* difference fits in 16 bits
C28_ExceptOverflow ==
    \A op \in CompareOps :
        (/\ RanCompare(op)
         /\ op = "eq" \/ DifferenceFits(Read(ram0, SP0 - 2), Read(ram0, SP0 - 1))) =>
            CompareResult(op)

----------------------------------------------------------------------------
(* The labels of two functions of one translation *)

IsLabel(cmd) == cmd.struct = "ProgramFlow" /\ cmd.command = "Label"
IsJump(cmd) == cmd.struct = "ProgramFlow" /\ cmd.command \in {"GoTo", "If"}

\* the written commands that are `label L` with one name in two functions
SameLabelTwice(k1, k2) ==
    /\ IsLabel(commands[k1]) /\ IsLabel(commands[k2])
    /\ commands[k1].symbol = commands[k2].symbol
    /\ EnclosingFunction(k1) # EnclosingFunction(k2)

\* the assembly labels written for them are distinct
LabelsDistinct ==
    \A k1, k2 \in DOMAIN cmdStart :
        SameLabelTwice(k1, k2) => LabelsDefinedBy(k1) \cap LabelsDefinedBy(k2) = {}

\* the symbol a written goto or if-goto jumps to is defined only by labels of
\* the function the jump stands in
JumpsStayInside ==
    \A k, j \in DOMAIN cmdStart :
        (IsJump(commands[k]) /\ SymbolsOf(k) \cap LabelsDefinedBy(j) # {}) =>
            EnclosingFunction(j) = EnclosingFunction(k)

\* C29: when two different VM functions of one translation each hold
\* `label L` with the same name L, the assembly labels written for the two
\* are distinct, and a goto or if-goto of one function never leads into the
\* other.
C29_LabelScope == LabelsDistinct /\ JumpsStayInside

\* what holds of the labels: the labels of different names are distinct
\* assembly labels, and a jump leads to labels of the name it gives
C29_ExceptSameName ==
    /\ \A k1, k2 \in DOMAIN cmdStart :
          (IsLabel(commands[k1]) /\ IsLabel(commands[k2])
           /\ commands[k1].symbol # commands[k2].symbol) =>
              LabelsDefinedBy(k1) \cap LabelsDefinedBy(k2) = {}
    /\ \A k, j \in DOMAIN cmdStart :
          (IsJump(commands[k]) /\ IsLabel(commands[j])
           /\ SymbolsOf(k) \cap LabelsDefinedBy(j) # {}) =>
              commands[j].symbol = commands[k].symbol

----------------------------------------------------------------------------
(* The tokens that end a line *)

\* C30: a token whose last character is the last character of its line (an
\* identifier, keyword, integer or `/` that no blank or symbol follows before
\* the line break) is in the token list: outside comments and strings no
\* pending character is dropped when a line ends.
C30_LineEndTokens ==
    (jackSource.kind = "token at line end" /\ Scanned) => ScansAsExpected

\* the tokens that a blank follows are in the token list
C30_ExceptLineEnd ==
    (jackSource.kind = "spaced" /\ Scanned) => ScansAsExpected

====
